---- MODULE Spec2Model ----
(***************************************************************************)
(* Timetable generation (CSP / GA back-ends behind TimetableService) and   *)
(* substitute auto-assignment of the backend under src/backend/app.         *)
(* Tables of the database are modelled as sequences (catalog, in id order)  *)
(* or sets (versions, entries, substitutions) of records that keep the      *)
(* column names of infrastructure/models.py.                                *)
(***************************************************************************)
EXTENDS Integers, Sequences, FiniteSets, TLC

VARIABLES
    teachers,            \* table teachers
    subjects,            \* table subjects
    rooms,               \* table rooms
    class_groups,        \* table class_groups
    time_slots,          \* table time_slots
    lessons,             \* table lessons with its three join tables
    timetable_versions,  \* committed rows of timetable_versions
    timetable_entries,   \* committed rows of timetable_entries
    last_id,             \* last primary key handed out, per table
    runs,                \* per Version id: the background task or the
                         \* generate_and_save call that solves for it
    response,            \* what the generate_and_save call that acted last has
                         \* answered: "none" until it answers
    ga,                  \* a GeneticTimetableSolver object and its solve() call
    csp,                 \* a CspTimetableSolver object and its solve() call
    substitutions,       \* table substitutions
    sub_response,        \* the last response of a substitution endpoint
    schedule_config,     \* the row of table schedule_config
    config_call          \* the request of a configuration endpoint that is
                         \* being served or was served last

catalogVars == <<teachers, subjects, rooms, class_groups, time_slots, lessons>>
genVars == <<timetable_versions, timetable_entries, last_id, runs, response>>
solverVars == <<ga, csp>>
subVars == <<substitutions, sub_response>>
configVars == <<schedule_config, config_call>>
vars == <<catalogVars, genVars, solverVars, subVars, configVars>>

\* Python's None for an optional integer column; ids start at 1, and the
\* code's truth tests (if a['teacher_id'], if not tid) treat both alike.
None == 0

------------------------------------------------------------------------------
\* Bounds of the model

MaxVersions == 2         \* Versions created in one behaviour
MaxPeriods == 3          \* largest number_of_periods of a generated slot table
MaxLessonsPerWeek == 2   \* largest lessons_per_week of a lesson
GaPeriods == 2           \* periods of the day a solver object is given
GaPopSize == 3           \* pop_size of a solver object
GaGenerations == 2       \* generations of a solver object
MaxSubstitutions == 3    \* Substitution records created in one behaviour
MaxSearch == 16          \* largest (rooms x slots)^(units) search of a configured catalog
MaxConfigCalls == 2      \* requests to the configuration endpoints in one behaviour

\* One working day stands for the week: the days are replicas of each other
\* in every generator of time slots.
Weekdays == <<"Monday">>

------------------------------------------------------------------------------
\* Helpers on sequences

RECURSIVE Flatten(_)
Flatten(ss) == IF ss = <<>> THEN <<>> ELSE Head(ss) \o Flatten(Tail(ss))

Range(s) == {s[i] : i \in DOMAIN s}

\* b^e as long as it is at most cap, and some number above cap otherwise
RECURSIVE Power(_, _, _)
Power(b, e, cap) ==
    IF e <= 0 THEN 1
    ELSE LET r == Power(b, e - 1, cap) IN IF r > cap THEN r ELSE b * r

------------------------------------------------------------------------------
\* Time slot tables, as the three writers of time_slots leave them

\* _minutes_to_hhmm: "HH:MM" as the pair <<HH, MM>>
minutes_to_hhmm(m) == <<(m \div 60) % 24, m % 60>>

\* hh:mm back to minutes (_hhmm_to_minutes)
hhmm_to_minutes(t) == t[1] * 60 + t[2]

WithIds(rows) == [i \in 1..Len(rows) |-> [id |-> i] @@ rows[i]]

\* startup seeding: periods 1..8 of each day, period 4 is the lunch break
SeedPeriods == 8
SeedBreakPeriod == 4
SeedSlots ==
    WithIds(Flatten([d \in 1..Len(Weekdays) |->
        [i \in 1..SeedPeriods |->
            [day |-> Weekdays[d], period |-> i,
             start_time |-> <<8 + i, 0>>, end_time |-> <<9 + i, 0>>,
             is_break |-> (i = SeedBreakPeriod)]]]))

\* configure_time_slots: number_of_periods periods per day, no break
ConfigureSlots(number_of_periods, period_length_minutes, start_hour) ==
    WithIds(Flatten([d \in 1..Len(Weekdays) |->
        [p \in 1..number_of_periods |->
            LET minutes == start_hour * 60 + (p - 1) * period_length_minutes
                end_minutes == minutes + period_length_minutes
            IN  [day |-> Weekdays[d], period |-> p,
                 start_time |-> <<(minutes \div 60) % 24, minutes % 60>>,
                 end_time |-> <<(end_minutes \div 60) % 24, end_minutes % 60>>,
                 is_break |-> FALSE]]]))

\* the breaks of cfg placed after period p, in list order, starting at minutes
RECURSIVE BreaksAfter(_, _, _, _)
BreaksAfter(breaks, day, p, minutes) ==
    IF breaks = <<>> THEN <<>>
    ELSE LET b == Head(breaks)
         IN  IF b.position = p /\ b.duration > 0
             THEN <<[day |-> day, period |-> 0,
                     start_time |-> minutes_to_hhmm(minutes),
                     end_time |-> minutes_to_hhmm(minutes + b.duration),
                     is_break |-> TRUE]>>
                  \o BreaksAfter(Tail(breaks), day, p, minutes + b.duration)
             ELSE BreaksAfter(Tail(breaks), day, p, minutes)

RECURSIVE BreakMinutesAfter(_, _)
BreakMinutesAfter(breaks, p) ==
    IF breaks = <<>> THEN 0
    ELSE (IF Head(breaks).position = p /\ Head(breaks).duration > 0
          THEN Head(breaks).duration ELSE 0)
         + BreakMinutesAfter(Tail(breaks), p)

\* the loop over the periods of one day in generate_time_slots_from_config
RECURSIVE DaySlots(_, _, _, _, _)
DaySlots(cfg, day, p, minutes, lunch_inserted) ==
    IF p > cfg.number_of_periods THEN <<>>
    ELSE LET lunch_now == /\ cfg.lunch_break_start # None
                          /\ ~lunch_inserted
                          /\ minutes >= cfg.lunch_break_start
             lunch == IF lunch_now
                      THEN <<[day |-> day, period |-> 0,
                              start_time |-> minutes_to_hhmm(cfg.lunch_break_start),
                              end_time |-> minutes_to_hhmm(cfg.lunch_break_end),
                              is_break |-> TRUE]>>
                      ELSE <<>>
             start == IF lunch_now THEN cfg.lunch_break_end ELSE minutes
             end_minutes == start + cfg.period_duration_minutes
             slot == [day |-> day, period |-> p,
                      start_time |-> minutes_to_hhmm(start),
                      end_time |-> minutes_to_hhmm(end_minutes),
                      is_break |-> FALSE]
         IN  lunch \o <<slot>> \o BreaksAfter(cfg.breaks, day, p, end_minutes)
             \o DaySlots(cfg, day, p + 1,
                         end_minutes + BreakMinutesAfter(cfg.breaks, p),
                         lunch_inserted \/ lunch_now)

MinutesPerDay == 24 * 60

\* the sum of the durations of cfg.breaks
RECURSIVE total_break_minutes(_)
total_break_minutes(breaks) ==
    IF breaks = <<>> THEN 0
    ELSE Head(breaks).duration + total_break_minutes(Tail(breaks))

\* the length of the lunch break, 0 when it has no start or no end or ends
\* before it starts
lunch_minutes(cfg) ==
    IF cfg.lunch_break_start # None /\ cfg.lunch_break_end # None
       /\ cfg.lunch_break_end >= cfg.lunch_break_start
    THEN cfg.lunch_break_end - cfg.lunch_break_start
    ELSE 0

\* working_minutes: the stored value, else the span from day_start_time to
\* day_end_time (into the next day when the end is earlier), else None
working_minutes(cfg) ==
    LET start_min == hhmm_to_minutes(cfg.day_start_time) IN
    IF cfg.working_minutes_per_day # None THEN cfg.working_minutes_per_day
    ELSE IF cfg.day_end_time # None
         THEN LET end_min == cfg.day_end_time
              IN  IF end_min >= start_min THEN end_min - start_min
                  ELSE MinutesPerDay - start_min + end_min
         ELSE None

\* max(1, a // b)
AtLeastOne(a, b) == IF a \div b > 1 THEN a \div b ELSE 1

\* the head of generate_time_slots_from_config: the number and the length
\* of the periods it will use, or rejected (HTTP 400) when one of them is
\* missing and cannot be derived, when the working minutes leave nothing
\* after breaks and lunch, or when the day would end past midnight
SlotPlan(cfg) ==
    LET available == working_minutes(cfg) - total_break_minutes(cfg.breaks)
                        - lunch_minutes(cfg)
        derive_n == cfg.number_of_periods = None
        n_rejected == derive_n /\ (\/ cfg.period_duration_minutes = None
                                   \/ working_minutes(cfg) = None
                                   \/ available <= 0)
        num_periods == IF derive_n /\ ~n_rejected
                       THEN AtLeastOne(available, cfg.period_duration_minutes)
                       ELSE cfg.number_of_periods
        derive_d == ~n_rejected /\ cfg.period_duration_minutes = None
        d_rejected == derive_d /\ (working_minutes(cfg) = None \/ available <= 0)
        period_dur == IF derive_d /\ ~d_rejected
                      THEN AtLeastOne(available, num_periods)
                      ELSE cfg.period_duration_minutes
        last_end == hhmm_to_minutes(cfg.day_start_time) + num_periods * period_dur
                        + total_break_minutes(cfg.breaks) + lunch_minutes(cfg)
    IN  IF n_rejected \/ d_rejected THEN [rejected |-> TRUE]
        ELSE IF last_end > MinutesPerDay THEN [rejected |-> TRUE]
        ELSE [rejected |-> FALSE, num_periods |-> num_periods, period_dur |-> period_dur]

\* generate_time_slots_from_config, for a configuration it accepts: the rows
\* that replace the table
generate_time_slots_from_config(cfg) ==
    LET plan == SlotPlan(cfg)
        c == [cfg EXCEPT !.number_of_periods = plan.num_periods,
                         !.period_duration_minutes = plan.period_dur]
    IN  WithIds(Flatten([d \in 1..Len(c.schedule_days) |->
            DaySlots(c, c.schedule_days[d], 1,
                     hhmm_to_minutes(c.day_start_time), FALSE)]))

\* a ScheduleConfig with the columns that the slot generator and the
\* configuration endpoints read.  The lunch times and the end of the day
\* are kept as the minutes since midnight that they parse to, None = absent.
ConfigRow(day_end_time, working_minutes_per_day, n, period_duration_minutes, lunch_start, lunch_end, breaks) ==
    [day_start_time |-> <<9, 0>>, day_end_time |-> day_end_time,
     working_minutes_per_day |-> working_minutes_per_day,
     number_of_periods |-> n,
     period_duration_minutes |-> period_duration_minutes, breaks |-> breaks,
     lunch_break_start |-> lunch_start, lunch_break_end |-> lunch_end,
     schedule_days |-> Weekdays]

\* a stored ScheduleConfig with periods of an hour
ScheduleConfig(n, lunch_start, lunch_end, breaks) ==
    ConfigRow(None, None, n, 60, lunch_start, lunch_end, breaks)

------------------------------------------------------------------------------
\* Lesson expansion into required assignments

RequiredAssignment(lesson, teacher_id, subject_id, group_id, occurrence) ==
    [group_id |-> group_id, subject_id |-> subject_id, teacher_id |-> teacher_id,
     duration |-> lesson.length_per_lesson, occurrence |-> occurrence]

\* assignment_id counts the appended items from 0
Numbered(items) == [i \in 1..Len(items) |-> [assignment_id |-> i - 1] @@ items[i]]

\* generate_and_save: every (teacher, subject, group) of every lesson
ExpandLessonsSync(db_lessons) ==
    Numbered(Flatten([l \in 1..Len(db_lessons) |->
        LET lesson == db_lessons[l] IN
        Flatten([t \in 1..Len(lesson.teachers) |->
            Flatten([s \in 1..Len(lesson.subjects) |->
                Flatten([g \in 1..Len(lesson.class_groups) |->
                    [o \in 1..lesson.lessons_per_week |->
                        RequiredAssignment(lesson, lesson.teachers[t],
                            lesson.subjects[s], lesson.class_groups[g], o)]])])])]))

\* generate_in_background: the first teacher, subject and group of every lesson
ExpandLessonsBackground(db_lessons) ==
    Numbered(Flatten([l \in 1..Len(db_lessons) |->
        LET lesson == db_lessons[l]
            teacher_id == IF lesson.teachers # <<>> THEN lesson.teachers[1] ELSE None
            subject_id == IF lesson.subjects # <<>> THEN lesson.subjects[1] ELSE None
            group_id == IF lesson.class_groups # <<>> THEN lesson.class_groups[1] ELSE None
        IN  IF teacher_id # None /\ subject_id # None /\ group_id # None
            THEN [o \in 1..lesson.lessons_per_week |->
                    RequiredAssignment(lesson, teacher_id, subject_id, group_id, o)]
            ELSE <<>>]))

------------------------------------------------------------------------------
\* CspTimetableSolver

\* `if t.is_break: continue`
NonBreakSlots(slots) == SelectSeq(slots, LAMBDA t : ~t.is_break)

ById(table, id) == CHOOSE row \in Range(table) : row.id = id

\* self.vars of the assignment path, in insertion order: (idx, room, slot)
CspVarSeq(ra, rms, slots) ==
    Flatten([idx \in 1..Len(ra) |->
        Flatten([r \in 1..Len(rms) |->
            [t \in 1..Len(NonBreakSlots(slots)) |->
                <<idx, rms[r].id, NonBreakSlots(slots)[t].id>>]])])

\* C1: each assignment with variables has exactly one of them set.  The
\* assignments 1..n are taken in turn and one variable of each is chosen.
RECURSIVE CoverageChoices(_, _, _)
CoverageChoices(V, idx, n) ==
    IF idx > n THEN {{}}
    ELSE LET assignment_vars == {k \in V : k[1] = idx}
             rest == CoverageChoices(V, idx + 1, n)
         IN  IF assignment_vars = {} THEN rest
             ELSE {{k} \cup X : k \in assignment_vars, X \in rest}

\* C2: a group has at most one class in a slot
GroupNoOverlap(X, V, ra, slots) ==
    \A t \in Range(NonBreakSlots(slots)) :
        \A group_id \in {ra[i].group_id : i \in DOMAIN ra} :
            LET group_vars == {k \in V : ra[k[1]].group_id = group_id /\ k[3] = t.id}
            IN  group_vars # {} => Cardinality(X \cap group_vars) <= 1

\* C3: a room holds at most one class in a slot
RoomNoOverlap(X, V, rms, slots) ==
    \A r \in Range(rms) :
        \A t \in Range(NonBreakSlots(slots)) :
            LET room_vars == {k \in V : k[2] = r.id /\ k[3] = t.id}
            IN  room_vars # {} => Cardinality(X \cap room_vars) <= 1

\* C4: a teacher teaches at most one class in a slot
TeacherNoOverlap(X, V, ra, slots) ==
    \A t \in Range(NonBreakSlots(slots)) :
        \A teacher_id \in {ra[i].teacher_id : i \in DOMAIN ra} \ {None} :
            LET teacher_vars == {k \in V : ra[k[1]].teacher_id = teacher_id /\ k[3] = t.id}
            IN  teacher_vars # {} => Cardinality(X \cap teacher_vars) <= 1

\* the assignments of the variables that satisfy the model
CspSolutions(ra, rms, slots) ==
    LET V == Range(CspVarSeq(ra, rms, slots))
    IN  {X \in CoverageChoices(V, 1, Len(ra)) :
            /\ GroupNoOverlap(X, V, ra, slots)
            /\ RoomNoOverlap(X, V, rms, slots)
            /\ TeacherNoOverlap(X, V, ra, slots)}

\* _extract_solution_from_assignments: the set variables in insertion order
ExtractFromAssignments(X, ra, rms, slots) ==
    LET chosen == SelectSeq(CspVarSeq(ra, rms, slots), LAMBDA k : k \in X)
    IN  [i \in 1..Len(chosen) |->
            LET assignment == ra[chosen[i][1]]
                slot == ById(slots, chosen[i][3])
            IN  [class_group_id |-> assignment.group_id,
                 subject_id |-> assignment.subject_id,
                 room_id |-> chosen[i][2],
                 time_slot_id |-> chosen[i][3],
                 teacher_id |-> assignment.teacher_id,
                 day |-> slot.day, period |-> slot.period]]

\* What a solver call gives back to the service
Schedule(entries) == [kind |-> "schedule", schedule |-> entries]
NoSolution == [kind |-> "none", schedule |-> <<>>]
Raised == [kind |-> "raised", schedule |-> <<>>]

\* Python's `if schedule:`
Truthy(result) == result.kind = "schedule" /\ result.schedule # <<>>

\* self.vars of the cartesian path: (group, subject, room, slot)
CartesianVarSeq(grps, subjs, rms, slots) ==
    Flatten([g \in 1..Len(grps) |->
        Flatten([s \in 1..Len(subjs) |->
            Flatten([r \in 1..Len(rms) |->
                [t \in 1..Len(NonBreakSlots(slots)) |->
                    <<grps[g].id, subjs[s].id, rms[r].id, NonBreakSlots(slots)[t].id>>]])])])

\* C1 of the cartesian path: each (group, subject) with variables exactly once
RECURSIVE RequirementChoices(_, _)
RequirementChoices(V, pairs) ==
    IF pairs = <<>> THEN {{}}
    ELSE LET subject_vars == {k \in V : k[1] = Head(pairs)[1] /\ k[2] = Head(pairs)[2]}
             rest == RequirementChoices(V, Tail(pairs))
         IN  IF subject_vars = {} THEN rest
             ELSE {{k} \cup X : k \in subject_vars, X \in rest}

GroupSubjectPairs(grps, subjs) ==
    Flatten([g \in 1..Len(grps) |-> [s \in 1..Len(subjs) |-> <<grps[g].id, subjs[s].id>>]])

CartesianGroupNoOverlap(X, V, grps, slots) ==
    \A g \in Range(grps) :
        \A t \in Range(NonBreakSlots(slots)) :
            LET g_vars == {k \in V : k[1] = g.id /\ k[4] = t.id}
            IN  g_vars # {} => Cardinality(X \cap g_vars) <= 1

CartesianRoomNoOverlap(X, V, rms, slots) ==
    \A r \in Range(rms) :
        \A t \in Range(NonBreakSlots(slots)) :
            LET r_vars == {k \in V : k[3] = r.id /\ k[4] = t.id}
            IN  r_vars # {} => Cardinality(X \cap r_vars) <= 1

CartesianTeacherNoOverlap(X, V, subjs, slots) ==
    \A tid \in {s.teacher_id : s \in Range(subjs)} \ {None} :
        \A t \in Range(NonBreakSlots(slots)) :
            LET t_vars == {k \in V : ById(subjs, k[2]).teacher_id = tid /\ k[4] = t.id}
            IN  t_vars # {} => Cardinality(X \cap t_vars) <= 1

CartesianSolutions(grps, subjs, rms, slots) ==
    LET V == Range(CartesianVarSeq(grps, subjs, rms, slots))
    IN  {X \in RequirementChoices(V, GroupSubjectPairs(grps, subjs)) :
            /\ CartesianGroupNoOverlap(X, V, grps, slots)
            /\ CartesianRoomNoOverlap(X, V, rms, slots)
            /\ CartesianTeacherNoOverlap(X, V, subjs, slots)}

\* the period a lab that starts in LabStartPeriod is continued in
LabStartPeriod == 5
LabNextPeriod == 6

\* _extract_solution: the main entry of a set variable and, for a lab placed
\* in period 5, the entry of the period 6 slot of that day
ExtractEntries(key, subjs, slots) ==
    LET subject == ById(subjs, key[2])
        slot == ById(slots, key[4])
        main == [class_group_id |-> key[1], subject_id |-> key[2],
                 room_id |-> key[3], time_slot_id |-> key[4],
                 teacher_id |-> subject.teacher_id,
                 day |-> slot.day, period |-> slot.period]
        p6 == {t \in Range(slots) : t.day = slot.day /\ t.period = LabNextPeriod}
        p6_slot == CHOOSE t \in p6 : \A u \in p6 : t.id <= u.id
    IN  IF subject.is_lab /\ subject.duration_slots > 1
           /\ slot.period = LabStartPeriod /\ p6 # {}
        THEN <<main, [main EXCEPT !.time_slot_id = p6_slot.id, !.period = LabNextPeriod]>>
        ELSE <<main>>

ExtractSolution(X, grps, subjs, rms, slots) ==
    LET chosen == SelectSeq(CartesianVarSeq(grps, subjs, rms, slots), LAMBDA k : k \in X)
    IN  Flatten([i \in 1..Len(chosen) |-> ExtractEntries(chosen[i], subjs, slots)])

\* _solve_cartesian: no time limit, so None only when no assignment exists
SolveCartesian(grps, subjs, rms, slots) ==
    LET sols == CartesianSolutions(grps, subjs, rms, slots)
    IN  IF sols = {} THEN {NoSolution}
        ELSE {Schedule(ExtractSolution(X, grps, subjs, rms, slots)) : X \in sols}

\* CspTimetableSolver.solve: one of the feasible assignments, or None when
\* there is none or the 60 s limit ends the search first
CspSolve(ra, grps, subjs, rms, slots) ==
    IF ra = <<>> THEN SolveCartesian(grps, subjs, rms, slots)
    ELSE {NoSolution} \cup
         {Schedule(ExtractFromAssignments(X, ra, rms, slots)) :
             X \in CspSolutions(ra, rms, slots)}

\* CspTimetableSolver(teachers, subjects, rooms, groups, slots): the object a
\* caller builds from entities of its own; required_assignments defaults to []
CspTimetableSolver(tchrs, subjs, rms, grps, slots) ==
    [pc |-> "created", teachers |-> tchrs, subjects |-> subjs, rooms |-> rms,
     groups |-> grps, slots |-> slots, required_assignments |-> <<>>,
     result |-> NoSolution]

------------------------------------------------------------------------------
\* HardConstraints and SoftConstraints.  A schedule is a sequence of entries
\* with class_group_id, subject_id, room_id, time_slot_id and teacher_id.

\* the sum of the values of the function f over the set S
RECURSIVE SumOver(_, _)
SumOver(S, f) ==
    IF S = {} THEN 0
    ELSE LET x == CHOOSE y \in S : TRUE IN f[x] + SumOver(S \ {x}, f)

Max(S) == CHOOSE x \in S : \A y \in S : y <= x
Min(S) == CHOOSE x \in S : \A y \in S : x <= y

\* one conflict for every (teacher, slot) key with more than one entry; the
\* key of an entry without a teacher is (None, slot)
check_teacher_overlap(schedule) ==
    Cardinality({key \in {<<schedule[i].teacher_id, schedule[i].time_slot_id>> : i \in DOMAIN schedule} :
        Cardinality({i \in DOMAIN schedule :
            <<schedule[i].teacher_id, schedule[i].time_slot_id>> = key}) > 1})

check_room_overlap(schedule) ==
    Cardinality({key \in {<<schedule[i].room_id, schedule[i].time_slot_id>> : i \in DOMAIN schedule} :
        Cardinality({i \in DOMAIN schedule :
            <<schedule[i].room_id, schedule[i].time_slot_id>> = key}) > 1})

\* one conflict for every entry whose group is larger than its room
check_room_capacity(schedule, grps, rms) ==
    Cardinality({i \in DOMAIN schedule :
        ById(grps, schedule[i].class_group_id).student_count
            > ById(rms, schedule[i].room_id).capacity})

\* the entries of a teacher on a day whose slot is among slots and no break
TeacherDayEntries(schedule, slots, tid, day) ==
    {i \in DOMAIN schedule :
        /\ schedule[i].teacher_id = tid
        /\ \E t \in Range(slots) : /\ t.id = schedule[i].time_slot_id
                                   /\ ~t.is_break /\ t.day = day}

PeriodOf(schedule, slots, i) == ById(slots, schedule[i].time_slot_id).period

\* 10 for each gap: (last - first + 1) - (number of the teacher's entries of
\* the day), over the days on which the teacher has more than one entry
calculate_gaps(schedule, slots) ==
    LET tids == {schedule[i].teacher_id : i \in DOMAIN schedule} \ {None}
        days == {t.day : t \in Range(slots)}
        gaps(td) ==
            LET on == TeacherDayEntries(schedule, slots, td[1], td[2])
                periods == {PeriodOf(schedule, slots, i) : i \in on}
            IN  IF Cardinality(on) <= 1 THEN 0
                ELSE ((Max(periods) - Min(periods) + 1) - Cardinality(on)) * 10
    IN  SumOver(tids \X days, [td \in tids \X days |-> gaps(td)])

\* (5 * standard deviation)^2 of the teachers' loads, as a fraction
balance_workload_squared(schedule, tchrs) ==
    LET n == Len(tchrs)
        load(k) == Cardinality({i \in DOMAIN schedule : schedule[i].teacher_id = tchrs[k].id})
        sum == SumOver(DOMAIN tchrs, [k \in DOMAIN tchrs |-> load(k)])
        squares == SumOver(DOMAIN tchrs, [k \in DOMAIN tchrs |-> load(k) * load(k)])
    IN  IF n = 0 THEN [num |-> 0, den |-> 1]
        ELSE [num |-> 25 * (n * squares - sum * sum), den |-> n * n]

\* the longest run p, p+1, ... in the sorted periods of a (teacher, day);
\* a repeated period starts a new run
RECURSIVE MaxConsecutive(_, _, _, _)
MaxConsecutive(sorted_periods, i, consecutive_count, max_consecutive) ==
    IF i > Len(sorted_periods) THEN max_consecutive
    ELSE IF sorted_periods[i] = sorted_periods[i - 1] + 1
         THEN MaxConsecutive(sorted_periods, i + 1, consecutive_count + 1,
                             IF consecutive_count + 1 > max_consecutive
                             THEN consecutive_count + 1 ELSE max_consecutive)
         ELSE MaxConsecutive(sorted_periods, i + 1, 1, max_consecutive)

\* the periods of the entries `on`, in ascending order
RECURSIVE SortedPeriods(_, _, _)
SortedPeriods(schedule, slots, on) ==
    IF on = {} THEN <<>>
    ELSE LET i == CHOOSE j \in on :
                    \A k \in on : PeriodOf(schedule, slots, j) <= PeriodOf(schedule, slots, k)
         IN  <<PeriodOf(schedule, slots, i)>> \o SortedPeriods(schedule, slots, on \ {i})

consecutive_classes_penalty(schedule, slots) ==
    LET tids == {schedule[i].teacher_id : i \in DOMAIN schedule} \ {None}
        days == {t.day : t \in Range(slots)}
        penalty(td) ==
            LET on == TeacherDayEntries(schedule, slots, td[1], td[2])
                longest == MaxConsecutive(SortedPeriods(schedule, slots, on), 2, 1, 1)
            IN  IF on # {} /\ longest > 3 THEN (longest - 3) * 8 ELSE 0
    IN  SumOver(tids \X days, [td \in tids \X days |-> penalty(td)])

------------------------------------------------------------------------------
\* GeneticTimetableSolver.  The genes are dicts that the individuals refer
\* to: an individual is a sequence of gene ids, ga.genes maps an id to the
\* dict, and a child shares the dicts of its parents.

\* self.slots
GaSlots(slots) == SelectSeq(slots, LAMBDA s : ~s.is_break)

NoSolver == [pc |-> "none"]

GeneticTimetableSolver(tchrs, subjs, rms, grps, slots, pop_size, generations) ==
    [pc |-> "created", teachers |-> tchrs, subjects |-> subjs, rooms |-> rms,
     groups |-> grps, slots |-> GaSlots(slots),
     pop_size |-> pop_size, generations |-> generations,
     genes |-> <<>>, population |-> <<>>, new_population |-> <<>>,
     gen |-> 0, result |-> <<>>]

\* the (group, subject) pairs in the order _generate_random_individual visits them
Genome(g) == GroupSubjectPairs(g.groups, g.subjects)

\* the rooms random.choice may give a subject: those of its type
valid_rooms(g, subject) ==
    SelectSeq(g.rooms, LAMBDA r : r.type = subject.required_room_type)

Gene(g, pair, room, slot) ==
    [class_group_id |-> pair[1], subject_id |-> pair[2], room_id |-> room.id,
     time_slot_id |-> slot.id, teacher_id |-> ById(g.subjects, pair[2]).teacher_id]

\* the dicts a gene of the pair may start as
GeneChoices(g, pair) ==
    LET subject == ById(g.subjects, pair[2])
        candidates == IF valid_rooms(g, subject) # <<>>
                      THEN Range(valid_rooms(g, subject)) ELSE {g.rooms[1]}
    IN  {Gene(g, pair, room, slot) : room \in candidates, slot \in Range(g.slots)}

\* the schedule an individual stands for
Deref(g, individual) == [j \in DOMAIN individual |-> g.genes[individual[j]]]

\* _fitness without the balance penalty, which is added below
FitnessKey(g, schedule) ==
    10000 - 1000 * (check_teacher_overlap(schedule) + check_room_overlap(schedule)
                    + check_room_capacity(schedule, g.groups, g.rooms))
          - calculate_gaps(schedule, g.slots)
          - consecutive_classes_penalty(schedule, g.slots)

\* key - balance > 0, balance being the root of the fraction b
AboveZero(key, b) == key > 0 /\ key * key * b.den > b.num

\* max(0, key1 - balance) > max(0, key2 - balance).  The balance penalty is
\* the same for all individuals of a solver: the teacher of a gene is the
\* teacher of its subject.
FitnessGreater(g, s1, s2) ==
    LET b1 == balance_workload_squared(s1, g.teachers)
        k1 == FitnessKey(g, s1)
        k2 == FitnessKey(g, s2)
    IN  k1 > k2 /\ AboveZero(k1, b1)

\* _fitness(individual) >= 10000
FitnessAtLeastBase(g, schedule) ==
    LET b == balance_workload_squared(schedule, g.teachers)
        k == FitnessKey(g, schedule)
    IN  k >= 10000 /\ (k - 10000) * (k - 10000) * b.den >= b.num

\* population.sort(key=fitness, reverse=True): stable, the keys taken first
SortedPopulation(g) ==
    LET pop == g.population
        before(i, j) ==
            \/ FitnessGreater(g, Deref(g, pop[i]), Deref(g, pop[j]))
            \/ /\ ~FitnessGreater(g, Deref(g, pop[j]), Deref(g, pop[i]))
               /\ i < j
        rank(i) == Cardinality({j \in DOMAIN pop : before(j, i)}) + 1
    IN  [r \in DOMAIN pop |-> pop[CHOOSE i \in DOMAIN pop : rank(i) = r]]

\* _tournament_selection: the first individual of greatest fitness in a
\* sample of three positions taken in random order
TournamentWinners(g) ==
    {g.population[i] : i \in {i \in DOMAIN g.population :
        \E sample \in SUBSET DOMAIN g.population :
            /\ Cardinality(sample) = 3 /\ i \in sample
            /\ \A j \in sample :
                  ~FitnessGreater(g, Deref(g, g.population[j]), Deref(g, g.population[i]))}}

\* _crossover: p1[:point] + p2[point:], point from 0 to len(p1) - 1
Crossover(p1, p2, point) ==
    SubSeq(p1, 1, point) \o SubSeq(p2, point + 1, Len(p2))

------------------------------------------------------------------------------
\* Catalogs the behaviours start from

Teacher(id, max_hours_per_week) ==
    [id |-> id, max_hours_per_week |-> max_hours_per_week]
Subject(id, name, is_lab, required_room_type, duration_slots, teacher_id) ==
    [id |-> id, name |-> name, is_lab |-> is_lab,
     required_room_type |-> required_room_type,
     duration_slots |-> duration_slots, teacher_id |-> teacher_id]
Room(id, type, capacity) == [id |-> id, type |-> type, capacity |-> capacity]
ClassGroup(id, student_count) == [id |-> id, student_count |-> student_count]
Lesson(id, ts, ss, gs, lessons_per_week) ==
    [id |-> id, teachers |-> ts, subjects |-> ss, class_groups |-> gs,
     lessons_per_week |-> lessons_per_week, length_per_lesson |-> 1]

\* subject names are sequences of characters
Maths == <<"M", "a", "t", "h", "s">>
MlLab == <<"M", "L", " ", "L", "a", "b">>
Art == <<"A", "r", "t">>

TeacherTable == <<Teacher(1, 2), Teacher(2, 2)>>

SubjectTables ==
    { <<Subject(1, Maths, FALSE, "LectureHall", 1, 1)>>,
      <<Subject(1, Maths, FALSE, "LectureHall", 1, 1),
        Subject(2, MlLab, TRUE, "Lab", 2, 2)>>,
      <<Subject(1, Maths, FALSE, "LectureHall", 1, 1),
        Subject(2, Art, FALSE, "LectureHall", 1, None)>> }

RoomTables ==
    { <<Room(1, "LectureHall", 2)>>,
      <<Room(1, "LectureHall", 2), Room(2, "Lab", 1)>> }

GroupTables ==
    { <<ClassGroup(1, 2)>>, <<ClassGroup(1, 2), ClassGroup(2, 1)>> }

\* slot tables written by configure_time_slots and by the schedule
\* configuration (number_of_periods = -1 leaves the table empty)
ConfiguredSlotTables ==
    {ConfigureSlots(n, 60, 9) : n \in {1, MaxPeriods}}
    \cup {generate_time_slots_from_config(ScheduleConfig(0 - 1, None, None, <<>>)),
          generate_time_slots_from_config(
              ScheduleConfig(MaxPeriods, 600, 660, <<[position |-> 1, duration |-> 15]>>))}

Ids(table) == [i \in 1..Len(table) |-> table[i].id]

LessonTables(subjs, grps) ==
    {<<>>} \cup
    {<<Lesson(1, ts, <<s>>, gs, n)>> :
        ts \in {<<1>>, <<1, 2>>}, s \in Range(Ids(subjs)),
        gs \in {<<1>>, Ids(grps)}, n \in 1..MaxLessonsPerWeek}

\* size of the search a solve of the catalog makes
SearchSpace(subjs, rms, grps, slots, db_lessons) ==
    LET ra == ExpandLessonsSync(db_lessons)
        units == IF ra = <<>> THEN Len(grps) * Len(subjs) ELSE Len(ra)
    IN  Power(Len(rms) * Len(NonBreakSlots(slots)), units, MaxSearch)

\* Either a configured slot table with any catalog whose search is small, or
\* the seeded week (periods 5 and 6 exist) with a lab, one room, one group
\* and no lessons.
InitCatalog ==
    /\ teachers = TeacherTable
    /\ \/ /\ subjects \in SubjectTables
          /\ time_slots \in ConfiguredSlotTables
          /\ rooms \in RoomTables
          /\ class_groups \in GroupTables
          /\ lessons \in LessonTables(subjects, class_groups)
          /\ SearchSpace(subjects, rooms, class_groups, time_slots, lessons) <= MaxSearch
       \/ /\ subjects \in {ss \in SubjectTables : \E i \in DOMAIN ss : ss[i].is_lab}
          /\ time_slots = SeedSlots
          /\ rooms = <<Room(1, "LectureHall", 2)>>
          /\ class_groups = <<ClassGroup(1, 2)>>
          /\ lessons = <<>>

------------------------------------------------------------------------------
\* TimetableService and the generate endpoint

\* GeneticTimetableSolver(teachers, subjects, rooms, groups, slots, pop_size=50, ...)
\* is called with required_assignments in the place of pop_size; solve() then
\* evaluates range(self.pop_size) on a list, which raises TypeError.
GeneticSolveFromService(ra) == {Raised}

\* step 3 of the service: the solver chosen by method
ServiceSolve(method, ra) ==
    IF method = "genetic" THEN GeneticSolveFromService(ra)
    ELSE CspSolve(ra, class_groups, subjects, rooms, time_slots)

VersionRow(id) == CHOOSE v \in timetable_versions : v.id = id
VersionExists(id) == \E v \in timetable_versions : v.id = id
EntriesOf(id) == {e \in timetable_entries : e.version_id = id}

\* the TimetableEntry rows the service adds for a schedule
EntryRows(version_id, schedule) ==
    {[id |-> last_id.entry + i, version_id |-> version_id,
      time_slot_id |-> schedule[i].time_slot_id,
      subject_id |-> schedule[i].subject_id,
      room_id |-> schedule[i].room_id,
      class_group_id |-> schedule[i].class_group_id,
      teacher_id |-> schedule[i].teacher_id] : i \in 1..Len(schedule)}

SetVersion(id, status, is_valid) ==
    {IF v.id = id THEN [v EXCEPT !.status = status, !.is_valid = is_valid] ELSE v :
        v \in timetable_versions}

Run(by, pc, method, result, ra) ==
    [by |-> by, pc |-> pc, method |-> method, result |-> result,
     required_assignments |-> ra]

\* POST /generate: a processing Version and a queued background task
GenerateTimetable(method) ==
    /\ last_id.version < MaxVersions
    /\ Len(teachers) > 0 /\ Len(subjects) > 0 /\ Len(rooms) > 0 /\ Len(class_groups) > 0
    /\ LET id == last_id.version + 1 IN
        /\ timetable_versions' = timetable_versions \cup
               {[id |-> id, algorithm |-> method, status |-> "processing", is_valid |-> TRUE]}
        /\ runs' = runs @@ (id :> Run("background", "queued", method, NoSolution, <<>>))
        /\ last_id' = [last_id EXCEPT !.version = id]
    /\ UNCHANGED <<catalogVars, solverVars, configVars, subVars, timetable_entries, response>>

\* generate_in_background up to the return of solver.solve()
WorkerSolve(v) ==
    /\ v \in DOMAIN runs /\ runs[v].by = "background" /\ runs[v].pc = "queued"
    /\ IF ~VersionExists(v)
       THEN runs' = [runs EXCEPT ![v].pc = "done"]
       ELSE LET ra == ExpandLessonsBackground(lessons) IN
            \E result \in ServiceSolve(runs[v].method, ra) :
                runs' = [runs EXCEPT ![v] =
                            Run("background", "solved", runs[v].method, result, ra)]
    /\ UNCHANGED <<catalogVars, solverVars, configVars, subVars, timetable_versions, timetable_entries, last_id, response>>

\* WorkerCommit without the except clause: an exception of the solver ends
\* the task and the Version row is not touched
WorkerCommitNoHandler(v) ==
    /\ v \in DOMAIN runs /\ runs[v].by = "background" /\ runs[v].pc = "solved"
    /\ LET result == runs[v].result IN
        IF result.kind = "raised"
        THEN UNCHANGED <<timetable_versions, timetable_entries, last_id>>
        ELSE IF Truthy(result)
        THEN /\ timetable_entries' = timetable_entries \cup EntryRows(v, result.schedule)
             /\ last_id' = [last_id EXCEPT !.entry = @ + Len(result.schedule)]
             /\ timetable_versions' = SetVersion(v, "active", TRUE)
        ELSE /\ timetable_versions' = SetVersion(v, "failed", FALSE)
             /\ UNCHANGED <<timetable_entries, last_id>>
    /\ runs' = [runs EXCEPT ![v].pc = "done"]
    /\ UNCHANGED <<catalogVars, solverVars, configVars, subVars, response>>

\* generate_in_background from `if schedule:` to the commit, or the handler
\* of the exception the solver raised
WorkerCommit(v) ==
    /\ v \in DOMAIN runs /\ runs[v].by = "background" /\ runs[v].pc = "solved"
    /\ LET result == runs[v].result IN
        IF ~VersionExists(v)
        THEN \* the row was deleted after the worker had read it: the UPDATE
             \* of its status matches no row, the commit raises and the
             \* transaction, the added entries with it, is rolled back
             UNCHANGED <<timetable_versions, timetable_entries, last_id>>
        ELSE IF result.kind = "raised"
        THEN /\ timetable_versions' = SetVersion(v, "error", VersionRow(v).is_valid)
             /\ UNCHANGED <<timetable_entries, last_id>>
        ELSE IF Truthy(result)
        THEN /\ timetable_entries' = timetable_entries \cup EntryRows(v, result.schedule)
             /\ last_id' = [last_id EXCEPT !.entry = @ + Len(result.schedule)]
             /\ timetable_versions' = SetVersion(v, "active", TRUE)
        ELSE /\ timetable_versions' = SetVersion(v, "failed", FALSE)
             /\ UNCHANGED <<timetable_entries, last_id>>
    /\ runs' = [runs EXCEPT ![v].pc = "done"]
    /\ UNCHANGED <<catalogVars, solverVars, configVars, subVars, response>>

\* SaveSolve with the Version row committed before the solve: the 409 then
\* leaves the row behind
SaveSolveVersionFirst ==
    /\ last_id.version < MaxVersions
    /\ LET ra == ExpandLessonsSync(lessons)
           id == last_id.version + 1
       IN  \E result \in ServiceSolve("csp", ra) :
            /\ timetable_versions' = timetable_versions \cup
                   {[id |-> id, algorithm |-> "csp", status |-> "draft", is_valid |-> TRUE]}
            /\ last_id' = [last_id EXCEPT !.version = id]
            /\ IF ~Truthy(result)
               THEN /\ response' = "409"
                    /\ runs' = runs @@ (id :> Run("save", "faulted", "csp", result, ra))
               ELSE /\ runs' = runs @@ (id :> Run("save", "versioned", "csp", result, ra))
                    /\ response' = "none"
    /\ UNCHANGED <<catalogVars, solverVars, configVars, subVars, timetable_entries>>

\* generate_and_save up to its first commit: the solve, then either the 409
\* or the new Version row (column defaults: status draft, is_valid true).
\* Its callers pass method="csp".
SaveSolve ==
    /\ last_id.version < MaxVersions
    /\ LET ra == ExpandLessonsSync(lessons) IN
       \E result \in ServiceSolve("csp", ra) :
           IF ~Truthy(result)
           THEN /\ response' = "409"
                /\ UNCHANGED <<timetable_versions, last_id, runs>>
           ELSE LET id == last_id.version + 1 IN
                /\ timetable_versions' = timetable_versions \cup
                       {[id |-> id, algorithm |-> "csp", status |-> "draft", is_valid |-> TRUE]}
                /\ last_id' = [last_id EXCEPT !.version = id]
                /\ runs' = runs @@ (id :> Run("save", "versioned", "csp", result, ra))
                /\ response' = "none"
    /\ UNCHANGED <<catalogVars, solverVars, configVars, subVars, timetable_entries>>

\* generate_and_save from the loop over the schedule to the second commit
SaveEntries(v) ==
    /\ v \in DOMAIN runs /\ runs[v].by = "save" /\ runs[v].pc = "versioned"
    /\ timetable_entries' = timetable_entries \cup EntryRows(v, runs[v].result.schedule)
    /\ last_id' = [last_id EXCEPT !.entry = @ + Len(runs[v].result.schedule)]
    /\ timetable_versions' = SetVersion(v, "active", TRUE)
    /\ runs' = [runs EXCEPT ![v].pc = "done"]
    /\ response' = "200"
    /\ UNCHANGED <<catalogVars, solverVars, configVars, subVars>>

\* a fault while the entries are written: the exception leaves the request,
\* whose session is closed with its uncommitted rows
SaveFault(v) ==
    /\ v \in DOMAIN runs /\ runs[v].by = "save" /\ runs[v].pc = "versioned"
    /\ runs' = [runs EXCEPT ![v].pc = "faulted"]
    /\ response' = "500"
    /\ UNCHANGED <<catalogVars, solverVars, configVars, subVars, timetable_versions, timetable_entries, last_id>>

------------------------------------------------------------------------------
\* The configuration endpoints of routers/operational.py.  A request is
\* served in steps, one for each db.commit() it makes; requests are served
\* one after the other.

\* the row that Init stores: two periods of an hour from 09:00
StoredConfig == ConfigRow(None, None, 2, 60, None, None, <<>>)

NoCall ==
    [op |-> "none", pc |-> "idle", input |-> StoredConfig, http |-> "none",
     old_config |-> StoredConfig, old_slots |-> <<>>, calls |-> 0]

\* a request that begins now: its input, and the rows it finds
Call(op, pc, input, http) ==
    [op |-> op, pc |-> pc, input |-> input, http |-> http,
     old_config |-> schedule_config, old_slots |-> time_slots,
     calls |-> config_call.calls + 1]

\* no request is being served, by these endpoints or by generate_and_save
CanCall ==
    /\ config_call.pc \in {"idle", "done"}
    /\ config_call.calls < MaxConfigCalls
    /\ \A v \in DOMAIN runs : runs[v].pc # "versioned"

Proceed(pc) == [config_call EXCEPT !.pc = pc]
Answer(http) == [config_call EXCEPT !.pc = "done", !.http = http]

\* configure_time_slots: the three checks at its head
ConfigureRejected(number_of_periods, period_length_minutes, start_hour) ==
    \/ number_of_periods < 1 \/ period_length_minutes < 1
    \/ start_hour < 0 \/ start_hour > 23
    \/ start_hour * 60 + number_of_periods * period_length_minutes > MinutesPerDay

\* configure_time_slots up to its first commit: 400, or the new slot table
ConfigureTimeSlots(number_of_periods, period_length_minutes, start_hour) ==
    LET input == [number_of_periods |-> number_of_periods,
                  period_length_minutes |-> period_length_minutes,
                  start_hour |-> start_hour]
    IN  /\ CanCall
        /\ IF ConfigureRejected(number_of_periods, period_length_minutes, start_hour)
           THEN /\ config_call' = Call("configure_time_slots", "done", input, "400")
                /\ UNCHANGED time_slots
           ELSE /\ time_slots' = ConfigureSlots(number_of_periods, period_length_minutes, start_hour)
                /\ config_call' = Call("configure_time_slots", "slots", input, "none")
        /\ UNCHANGED <<teachers, subjects, rooms, class_groups, lessons,
                       genVars, solverVars, subVars, schedule_config>>

\* configure_time_slots from there: the values are stored in the
\* ScheduleConfig row, or an exception of that part is passed over
ConfigurePersist ==
    /\ config_call.op = "configure_time_slots" /\ config_call.pc = "slots"
    /\ \/ schedule_config' =
              [schedule_config EXCEPT
                  !.day_start_time = <<config_call.input.start_hour, 0>>,
                  !.number_of_periods = config_call.input.number_of_periods,
                  !.period_duration_minutes = config_call.input.period_length_minutes,
                  !.working_minutes_per_day = config_call.input.number_of_periods
                                                * config_call.input.period_length_minutes,
                  !.schedule_days = Weekdays]
       \/ UNCHANGED schedule_config
    /\ config_call' = Answer("200")
    /\ UNCHANGED <<catalogVars, genVars, solverVars, subVars>>

\* update_schedule_config up to its first commit: the row takes the values
\* of the request
UpdateConfigSave(config) ==
    /\ CanCall
    /\ schedule_config' = config
    /\ config_call' = Call("update_schedule_config", "saved", config, "none")
    /\ UNCHANGED <<catalogVars, genVars, solverVars, subVars>>

\* update_schedule_config, the regeneration of the time slots: 400 from the
\* generator (its deletion of the slots is not committed), or the new table;
\* without a Version the request ends here
UpdateConfigSlots ==
    /\ config_call.op = "update_schedule_config" /\ config_call.pc = "saved"
    /\ IF SlotPlan(schedule_config).rejected
       THEN /\ config_call' = Answer("400")
            /\ UNCHANGED time_slots
       ELSE /\ time_slots' = generate_time_slots_from_config(schedule_config)
            /\ config_call' = IF timetable_versions = {} THEN Answer("200")
                              ELSE Proceed("slots")
    /\ UNCHANGED <<teachers, subjects, rooms, class_groups, lessons,
                   genVars, solverVars, subVars, schedule_config>>

\* the deletion of all entries and Versions, and its commit
DeleteTimetable(pc) ==
    /\ timetable_entries' = {}
    /\ timetable_versions' = {}
    /\ config_call' = Proceed(pc)
    /\ UNCHANGED <<catalogVars, last_id, runs, response, solverVars, subVars,
                   schedule_config>>

UpdateConfigDelete ==
    /\ config_call.op = "update_schedule_config" /\ config_call.pc = "slots"
    /\ DeleteTimetable("generate")

\* apply_config, steps 1 to 4: what it answers before it writes, or the
\* values it will store (number_of_periods derived, working minutes raised
\* to periods x duration)
ApplyConfigChecked(config) ==
    LET available == working_minutes(config)
        n == config.number_of_periods
        dur == config.period_duration_minutes
    IN  IF config.schedule_days = <<>> THEN [http |-> "400"]
        ELSE IF available = None THEN [http |-> "400"]
        ELSE IF n = None /\ dur = None THEN [http |-> "400"]
        ELSE IF dur = None THEN [http |-> "500"]
        ELSE LET number_of_periods == IF n = None THEN AtLeastOne(available, dur) ELSE n
                 total_required == number_of_periods * dur
             IN  [http |-> "none",
                  config |-> [config EXCEPT
                      !.number_of_periods = number_of_periods,
                      !.working_minutes_per_day =
                          IF total_required > available THEN total_required
                          ELSE available]]

\* apply_config up to its first commit
ApplyConfigSave(config) ==
    /\ CanCall
    /\ LET checked == ApplyConfigChecked(config) IN
       IF checked.http # "none"
       THEN /\ config_call' = Call("apply_config", "done", config, checked.http)
            /\ UNCHANGED schedule_config
       ELSE /\ schedule_config' = checked.config
            /\ config_call' = Call("apply_config", "saved", config, "none")
    /\ UNCHANGED <<catalogVars, genVars, solverVars, subVars>>

\* apply_config, step 6
ApplyConfigDelete ==
    /\ config_call.op = "apply_config" /\ config_call.pc = "saved"
    /\ DeleteTimetable("deleted")

\* apply_config, step 7
ApplyConfigSlots ==
    /\ config_call.op = "apply_config" /\ config_call.pc = "deleted"
    /\ IF SlotPlan(schedule_config).rejected
       THEN /\ config_call' = Answer("400")
            /\ UNCHANGED time_slots
       ELSE /\ time_slots' = generate_time_slots_from_config(schedule_config)
            /\ config_call' = Proceed("generate")
    /\ UNCHANGED <<teachers, subjects, rooms, class_groups, lessons,
                   genVars, solverVars, subVars, schedule_config>>

\* the call of generate_and_save that ends both endpoints, up to its first
\* commit: 409, or the Version row.  SaveEntries or SaveFault follows and
\* gives the answer.
ConfigGenerate ==
    /\ config_call.pc = "generate"
    /\ LET ra == ExpandLessonsSync(lessons) IN
       \E result \in ServiceSolve("csp", ra) :
           IF ~Truthy(result)
           THEN /\ response' = "409"
                /\ config_call' = Answer("409")
                /\ UNCHANGED <<timetable_versions, last_id, runs>>
           ELSE LET id == last_id.version + 1 IN
                /\ timetable_versions' = timetable_versions \cup
                       {[id |-> id, algorithm |-> "csp", status |-> "draft", is_valid |-> TRUE]}
                /\ last_id' = [last_id EXCEPT !.version = id]
                /\ runs' = runs @@ (id :> Run("save", "versioned", "csp", result, ra))
                /\ response' = "none"
                /\ config_call' = Answer("none")
    /\ UNCHANGED <<catalogVars, solverVars, subVars, timetable_entries, schedule_config>>

------------------------------------------------------------------------------
\* SubstituteScorer

UpperLetters == <<"A", "B", "C", "D", "E", "F", "G", "H", "I", "J", "K", "L", "M",
                  "N", "O", "P", "Q", "R", "S", "T", "U", "V", "W", "X", "Y", "Z">>
LowerLetters == <<"a", "b", "c", "d", "e", "f", "g", "h", "i", "j", "k", "l", "m",
                  "n", "o", "p", "q", "r", "s", "t", "u", "v", "w", "x", "y", "z">>

\* str.lower()
lower(name) ==
    [i \in DOMAIN name |->
        IF \E k \in DOMAIN UpperLetters : UpperLetters[k] = name[i]
        THEN LowerLetters[CHOOSE k \in DOMAIN UpperLetters : UpperLetters[k] = name[i]]
        ELSE name[i]]

\* Python's `a in b` on strings
IsSubstring(a, b) ==
    \E i \in 0..(Len(b) - Len(a)) : SubSeq(b, i + 1, i + Len(a)) = a

\* the rows of a set of table rows in the order of their ids
RECURSIVE OrderById(_)
OrderById(rows) ==
    IF rows = {} THEN <<>>
    ELSE LET first == CHOOSE r \in rows : \A q \in rows : r.id <= q.id
         IN  <<first>> \o OrderById(rows \ {first})

\* numbers of the scorer are fractions num/den with den > 0
Frac(num, den) == [num |-> num, den |-> den]
FracAdd(a, b) == Frac(a.num * b.den + b.num * a.den, a.den * b.den)
FracEq(a, b) == a.num * b.den = b.num * a.den
FracGeq(a, b) == a.num * b.den >= b.num * a.den

WeightAvailability == 100
WeightSubjectExpertise == 80
WeightWorkloadBalance == 50

\* _check_availability: the time slots of the candidate's entries of the
\* version that lie in time_slot_ids
check_availability(version_id, teacher_id, time_slot_ids) ==
    LET conflicting == OrderById({e \in EntriesOf(version_id) :
            /\ e.teacher_id = teacher_id
            /\ e.time_slot_id \in Range(time_slot_ids)})
    IN  [c \in DOMAIN conflicting |-> conflicting[c].time_slot_id]

\* _calculate_subject_expertise_score: 80 for an equal name, 80 * 0.7 when
\* one name contains the other, else 0
calculate_subject_expertise_score(teacher_id, required_subjects) ==
    LET teacher_subject_names ==
            {lower(sb.name) : sb \in {x \in Range(subjects) : x.teacher_id = teacher_id}}
        required_subject_names == {lower(n) : n \in Range(required_subjects)}
    IN  IF teacher_subject_names \cap required_subject_names # {}
        THEN Frac(WeightSubjectExpertise, 1)
        ELSE IF \E ts \in teacher_subject_names : \E rs \in required_subject_names :
                    IsSubstring(ts, rs) \/ IsSubstring(rs, ts)
        THEN Frac(WeightSubjectExpertise * 7, 10)
        ELSE Frac(0, 1)

current_classes(version_id, teacher_id) ==
    Cardinality({e \in EntriesOf(version_id) : e.teacher_id = teacher_id})

\* an exception that leaves the scorer
ScoreRaised == [raised |-> TRUE]

\* _calculate_workload_score: max(0, 50 * (1 - utilization / 100)) with
\* utilization = current_classes / max_hours * 100.  The division raises
\* ZeroDivisionError when max_hours is 0: the value is then "raised".
calculate_workload_score(version_id, teacher_id) ==
    LET max_hours == ById(teachers, teacher_id).max_hours_per_week
        classes == current_classes(version_id, teacher_id)
        score == IF max_hours > 0
                 THEN Frac(WeightWorkloadBalance * (max_hours - classes), max_hours)
                 ELSE Frac(WeightWorkloadBalance * (classes - max_hours), 0 - max_hours)
    IN  IF max_hours = 0 THEN ScoreRaised
        ELSE IF score.num < 0 THEN Frac(0, 1) ELSE score

\* score_substitute
score_substitute(version_id, candidate_id, required_time_slots, required_subjects) ==
    IF ~\E t \in Range(teachers) : t.id = candidate_id
    THEN [raised |-> FALSE, score |-> Frac(0, 1), available |-> FALSE,
          reason |-> "Teacher not found"]
    ELSE LET conflicting_slots ==
                 check_availability(version_id, candidate_id, required_time_slots)
             subject_score ==
                 calculate_subject_expertise_score(candidate_id, required_subjects)
             workload_score == calculate_workload_score(version_id, candidate_id)
         IN  IF conflicting_slots # <<>>
             THEN [raised |-> FALSE, teacher_id |-> candidate_id,
                   score |-> Frac(0, 1), available |-> FALSE,
                   conflicting_slots |-> conflicting_slots]
             ELSE IF workload_score = ScoreRaised THEN ScoreRaised
             ELSE [raised |-> FALSE, teacher_id |-> candidate_id,
                   score |-> FracAdd(Frac(WeightAvailability, 1),
                                     FracAdd(subject_score, workload_score)),
                   available |-> TRUE,
                   breakdown |-> [availability |-> Frac(WeightAvailability, 1),
                                  subject_expertise |-> subject_score,
                                  workload_balance |-> workload_score],
                   current_workload |-> current_classes(version_id, candidate_id),
                   max_hours |-> ById(teachers, candidate_id).max_hours_per_week]

------------------------------------------------------------------------------
\* AutoAssignmentService and the substitution endpoints

\* _get_latest_version: the Version created last (ids grow with created_at),
\* None when there is none
LatestVersionId ==
    IF timetable_versions = {} THEN None
    ELSE Max({v.id : v \in timetable_versions})

Substitution(id, date, timetable_entry_id, original_teacher_id, substitute_teacher_id, status) ==
    [id |-> id, date |-> date, timetable_entry_id |-> timetable_entry_id,
     original_teacher_id |-> original_teacher_id,
     substitute_teacher_id |-> substitute_teacher_id, status |-> status]

\* scored_candidates.sort(key=score, reverse=True): stable
SortedByScore(scored) ==
    LET before(i, j) ==
            \/ ~FracGeq(scored[j].score, scored[i].score)
            \/ FracEq(scored[i].score, scored[j].score) /\ i < j
        rank(i) == Cardinality({j \in DOMAIN scored : before(j, i)}) + 1
    IN  [r \in DOMAIN scored |-> scored[CHOOSE i \in DOMAIN scored : rank(i) = r]]

\* what auto_assign_substitutes returns for an outcome, and the status code
\* the endpoint answers with: a result that has success = False and an
\* "error" becomes a 404, an exception a 500
AutoAssignSuccess(outcome) == outcome \in {"assigned", "no classes"}

AutoAssignReason(outcome) ==
    IF outcome = "cancelled"
    THEN "All potential substitutes are busy during these time slots"
    ELSE ""

AutoAssignStatus(outcome) ==
    IF outcome \in {"assigned", "no classes"} THEN 200
    ELSE IF outcome \in {"raised", "fault"} THEN 500
    ELSE 404

\* a status that leaves the class open
PendingStatus == "pending"

\* the status of the records written when no substitute is available
CancelledStatus == "cancelled"

\* the records of a call added to no more than its first entry
SubstitutionRecordsFirstOnly(entries, date, original_teacher_id, substitute_id, status) ==
    {Substitution(last_id.substitution + i, date, entries[i].id,
                  original_teacher_id, substitute_id, status) : i \in DOMAIN entries \cap {1}}

\* one Substitution per entry, as the loops over the entries add them
SubstitutionRecords(entries, date, original_teacher_id, substitute_id, status) ==
    {Substitution(last_id.substitution + i, date, entries[i].id,
                  original_teacher_id, substitute_id, status) : i \in DOMAIN entries}

\* self.db.commit() of the records that were added: all of them are
\* committed, or the commit raises and none is
CommitRecords(new, answered, faulted) ==
    \/ /\ substitutions' = substitutions \cup new
       /\ last_id' = [last_id EXCEPT !.substitution = @ + Cardinality(new)]
       /\ sub_response' = answered
    \/ /\ sub_response' = faulted
       /\ UNCHANGED <<substitutions, last_id>>

\* the orders in which a query without ORDER BY may return a set of rows
QueryOrders(rows) ==
    {q \in [1..Cardinality(rows) -> rows] : Range(q) = rows}

\* results.append(result) of a bulk request: an exception of the call ends
\* the request with a 500, and the request is answered 200 after the last
\* absence
Collect(result) ==
    IF result.http = 500
    THEN [sub_response EXCEPT !.http = 500]
    ELSE [sub_response EXCEPT
             !.results = Append(@, result),
             !.http = IF Len(sub_response.results) + 1 = Len(sub_response.absences)
                      THEN 200 ELSE None]

\* what the caller of auto_assign_substitutes does with its result: the
\* endpoint answers with it, the bulk endpoint collects it
Reply(in_bulk, result) == IF in_bulk THEN Collect(result) ELSE result

\* auto_assign_substitutes behind POST /auto-assign: the whole call, which
\* commits once
AutoAssignService(teacher_id, date, in_bulk) ==
    \E all_teachers \in QueryOrders({t \in Range(teachers) : t.id # teacher_id}) :
    LET version_id == LatestVersionId
        entries == OrderById({e \in EntriesOf(version_id) : e.teacher_id = teacher_id})
        time_slot_ids == [i \in DOMAIN entries |-> entries[i].time_slot_id]
        subject_ids == {entries[i].subject_id : i \in DOMAIN entries}
        required_subjects ==
            LET named == SelectSeq(subjects, LAMBDA sb : sb.id \in subject_ids)
            IN  [i \in DOMAIN named |-> named[i].name]
        results == [c \in DOMAIN all_teachers |->
                       score_substitute(version_id, all_teachers[c].id,
                                        time_slot_ids, required_subjects)]
        scored_candidates ==
            SortedByScore(SelectSeq(results, LAMBDA r : r.available))
        answer(outcome, substitute_id) ==
            Reply(in_bulk,
                  [op |-> "auto_assign", teacher_id |-> teacher_id, date |-> date,
                   outcome |-> outcome, substitute_id |-> substitute_id,
                   affected |-> {entries[i].id : i \in DOMAIN entries},
                   success |-> AutoAssignSuccess(outcome),
                   reason |-> AutoAssignReason(outcome),
                   http |-> AutoAssignStatus(outcome)])
        records(substitute_id, status) ==
            SubstitutionRecords(entries, date, teacher_id, substitute_id, status)
    IN
    /\ last_id.substitution + Len(entries) <= MaxSubstitutions
    /\ IF version_id = None
       THEN /\ sub_response' = answer("no timetable", None)
            /\ UNCHANGED <<substitutions, last_id>>
       ELSE IF ~\E t \in Range(teachers) : t.id = teacher_id
       THEN /\ sub_response' = answer("teacher not found", None)
            /\ UNCHANGED <<substitutions, last_id>>
       ELSE IF entries = <<>>
       THEN /\ sub_response' = answer("no classes", None)
            /\ UNCHANGED <<substitutions, last_id>>
       ELSE IF \E c \in DOMAIN results : results[c] = ScoreRaised
       THEN /\ sub_response' = answer("raised", None)
            /\ UNCHANGED <<substitutions, last_id>>
       ELSE IF scored_candidates # <<>>
       THEN LET best_substitute == scored_candidates[1] IN
            CommitRecords(records(best_substitute.teacher_id, "confirmed"),
                          answer("assigned", best_substitute.teacher_id),
                          answer("fault", None))
       ELSE CommitRecords(records(None, CancelledStatus),
                          answer("cancelled", None), answer("fault", None))
    /\ UNCHANGED <<catalogVars, solverVars, configVars, timetable_versions, timetable_entries,
                   runs, response>>

\* POST /auto-assign
AutoAssign(teacher_id, date) ==
    AutoAssignService(teacher_id, date, FALSE)

\* POST /auto-assign-bulk is received: nothing is processed yet
AutoAssignBulk(absences) ==
    /\ sub_response' = [op |-> "auto_assign_bulk", absences |-> absences,
                        results |-> <<>>, http |-> None]
    /\ UNCHANGED <<catalogVars, genVars, solverVars, configVars, substitutions>>

\* a bulk request that has absences left to process
BulkRunning ==
    /\ sub_response.op = "auto_assign_bulk"
    /\ sub_response.http = None

\* one pass of `for absence in absences`: an absence without teacher_id gets
\* an error result, any other a call of auto_assign_substitutes, which
\* commits; an exception of the call ends the request with a 500, and the
\* request is answered 200 after the last absence
BulkStep ==
    /\ BulkRunning
    /\ LET absence == sub_response.absences[Len(sub_response.results) + 1]
       IN  IF absence.teacher_id = None
           THEN /\ sub_response' =
                       Collect([op |-> "auto_assign", teacher_id |-> absence.teacher_id,
                                date |-> absence.date, outcome |-> "missing",
                                success |-> FALSE, http |-> 404])
                /\ UNCHANGED <<catalogVars, genVars, solverVars, configVars, substitutions>>
           ELSE AutoAssignService(absence.teacher_id, absence.date, TRUE)

\* POST /assign: the record of (date, entry) is updated when there is one,
\* else created
AssignSubstitute(timetable_entry_id, date, substitute_teacher_id, original_teacher_id) ==
    LET answer(outcome) ==
            [op |-> "assign", timetable_entry_id |-> timetable_entry_id,
             date |-> date, substitute_teacher_id |-> substitute_teacher_id,
             outcome |-> outcome]
        found == {sb \in substitutions :
                     sb.date = date /\ sb.timetable_entry_id = timetable_entry_id}
    IN
    /\ found # {} \/ last_id.substitution + 1 <= MaxSubstitutions
    /\ IF ~\E e \in timetable_entries : e.id = timetable_entry_id
       THEN /\ sub_response' = answer("404 entry")
            /\ UNCHANGED <<substitutions, last_id>>
       ELSE IF ~\E t \in Range(teachers) : t.id = substitute_teacher_id
       THEN /\ sub_response' = answer("404 teacher")
            /\ UNCHANGED <<substitutions, last_id>>
       ELSE IF found # {}
       THEN LET existing == OrderById(found)[1] IN
            /\ substitutions' = (substitutions \ {existing}) \cup
                   {[existing EXCEPT !.substitute_teacher_id = substitute_teacher_id,
                                     !.status = "confirmed"]}
            /\ sub_response' = answer("confirmed")
            /\ UNCHANGED last_id
       ELSE /\ substitutions' = substitutions \cup
                   {Substitution(last_id.substitution + 1, date, timetable_entry_id,
                                 original_teacher_id, substitute_teacher_id, "confirmed")}
            /\ last_id' = [last_id EXCEPT !.substitution = @ + 1]
            /\ sub_response' = answer("confirmed")
    /\ UNCHANGED <<catalogVars, solverVars, configVars, timetable_versions, timetable_entries,
                   runs, response>>

\* POST /cancel-class: a cancelled record is added
CancelClass(timetable_entry_id, date, original_teacher_id) ==
    LET answer(outcome) ==
            [op |-> "cancel", timetable_entry_id |-> timetable_entry_id,
             date |-> date, outcome |-> outcome]
    IN
    /\ last_id.substitution + 1 <= MaxSubstitutions
    /\ IF ~\E e \in timetable_entries : e.id = timetable_entry_id
       THEN /\ sub_response' = answer("404 entry")
            /\ UNCHANGED <<substitutions, last_id>>
       ELSE /\ substitutions' = substitutions \cup
                   {Substitution(last_id.substitution + 1, date, timetable_entry_id,
                                 original_teacher_id, None, "cancelled")}
            /\ last_id' = [last_id EXCEPT !.substitution = @ + 1]
            /\ sub_response' = answer("cancelled")
    /\ UNCHANGED <<catalogVars, solverVars, configVars, timetable_versions, timetable_entries,
                   runs, response>>

\* a call of SubstituteScorer.score_substitute on the latest Version
ScoreSubstitute(candidate_id, required_time_slots, required_subjects) ==
    /\ LatestVersionId # None
    /\ sub_response' =
           [op |-> "score", candidate_id |-> candidate_id,
            required_time_slots |-> required_time_slots,
            required_subjects |-> required_subjects,
            result |-> score_substitute(LatestVersionId, candidate_id,
                                        required_time_slots, required_subjects)]
    /\ UNCHANGED <<catalogVars, genVars, solverVars, configVars, substitutions>>

------------------------------------------------------------------------------
\* GeneticTimetableSolver.solve()

GaUnchanged == UNCHANGED <<catalogVars, genVars, subVars, configVars, csp>>

\* population = [self._generate_random_individual() for _ in range(self.pop_size)]
\* random.choice(self.slots) and self.rooms[0] raise IndexError on an empty list
GaPopulate ==
    /\ ga.pc = "created"
    /\ LET L == Len(Genome(ga))
           ids == 1..(ga.pop_size * L)
           pair(id) == Genome(ga)[((id - 1) % L) + 1]
       IN  IF L > 0 /\ ga.pop_size > 0 /\ (ga.slots = <<>> \/ ga.rooms = <<>>)
           THEN ga' = [ga EXCEPT !.pc = "raised"]
           ELSE \E genes \in [ids -> UNION {GeneChoices(ga, pair(id)) : id \in ids}] :
                   /\ \A id \in ids : genes[id] \in GeneChoices(ga, pair(id))
                   /\ ga' = [ga EXCEPT
                         !.pc = "loop",
                         !.genes = genes,
                         !.population = [i \in 1..ga.pop_size |->
                                            [j \in 1..L |-> (i - 1) * L + j]]]
    /\ GaUnchanged

\* the head of the loop body: sort, leave the loop when the best individual
\* has fitness >= 10000, else keep the first two as the new population
GaGeneration ==
    /\ ga.pc = "loop" /\ ga.gen < ga.generations
    /\ LET sorted == SortedPopulation(ga) IN
       IF FitnessAtLeastBase(ga, Deref(ga, sorted[1]))
       THEN ga' = [ga EXCEPT !.pc = "broke", !.population = sorted]
       ELSE ga' = [ga EXCEPT !.pc = "breeding", !.population = sorted,
                             !.new_population = SubSeq(sorted, 1, 2)]
    /\ GaUnchanged

\* one pass of `while len(new_population) < self.pop_size`: two tournaments,
\* the crossover and, when random.random() is below the rate, the mutation,
\* which writes the time slot into one of the child's dicts.
\* random.sample raises ValueError on a population of fewer than three.
GaChild ==
    /\ ga.pc = "breeding" /\ Len(ga.new_population) < ga.pop_size
    /\ IF Len(ga.population) < 3
       THEN ga' = [ga EXCEPT !.pc = "raised"]
       ELSE \E parent1, parent2 \in TournamentWinners(ga) :
            \E point \in 0..(Len(parent1) - 1) :
                LET child == Crossover(parent1, parent2, point) IN
                \/ ga' = [ga EXCEPT !.new_population = Append(@, child)]
                \/ \E idx \in DOMAIN child : \E slot \in Range(ga.slots) :
                      ga' = [ga EXCEPT
                                !.new_population = Append(@, child),
                                !.genes[child[idx]].time_slot_id = slot.id]
    /\ GaUnchanged

\* population = new_population
GaEndGeneration ==
    /\ ga.pc = "breeding" /\ Len(ga.new_population) >= ga.pop_size
    /\ ga' = [ga EXCEPT !.pc = "loop", !.population = ga.new_population,
                        !.new_population = <<>>, !.gen = @ + 1]
    /\ GaUnchanged

\* return population[0]
GaReturn ==
    /\ \/ ga.pc = "broke"
       \/ ga.pc = "loop" /\ ga.gen >= ga.generations
    /\ IF ga.population = <<>>
       THEN ga' = [ga EXCEPT !.pc = "raised"]
       ELSE ga' = [ga EXCEPT !.pc = "returned", !.result = Deref(ga, ga.population[1])]
    /\ GaUnchanged

\* The inputs of the solver objects: one group and two subjects, or two
\* groups that share one subject and so its teacher; a day of GaPeriods
\* periods with a break after the first
GaSlotTable ==
    generate_time_slots_from_config(
        ScheduleConfig(GaPeriods, None, None, <<[position |-> 1, duration |-> 15]>>))

GaSolvers ==
    {GeneticTimetableSolver(TeacherTable, subjs, rms, <<ClassGroup(1, 2)>>,
                            GaSlotTable, GaPopSize, GaGenerations) :
        subjs \in {ss \in SubjectTables : Len(ss) = 2},
        rms \in {<<Room(1, "LectureHall", 2)>>, <<Room(1, "Lab", 1)>>}}
    \cup
    {GeneticTimetableSolver(TeacherTable, <<Subject(1, Maths, FALSE, "LectureHall", 1, 1)>>,
                            <<Room(1, "LectureHall", 2)>>,
                            <<ClassGroup(1, 2), ClassGroup(2, 1)>>,
                            GaSlotTable, GaPopSize, GaGenerations)}

\* A TimeSlot entity as a caller of the solver writes it
TimeSlot(id, day, period, is_break) ==
    [id |-> id, day |-> day, period |-> period,
     start_time |-> <<8 + period, 0>>, end_time |-> <<9 + period, 0>>,
     is_break |-> is_break]

\* slot lists handed to a CspTimetableSolver: a morning of three periods, and
\* an afternoon whose period 6 is a break
CspSlotTables ==
    { <<TimeSlot(1, Weekdays[1], 1, FALSE), TimeSlot(2, Weekdays[1], 2, FALSE),
        TimeSlot(3, Weekdays[1], 3, FALSE)>>,
      <<TimeSlot(1, Weekdays[1], 5, FALSE), TimeSlot(2, Weekdays[1], 6, TRUE),
        TimeSlot(3, Weekdays[1], 7, FALSE)>> }

CspSolvers ==
    {CspTimetableSolver(TeacherTable, subjs, rms, <<ClassGroup(1, 2)>>, slots) :
        subjs \in SubjectTables, rms \in RoomTables, slots \in CspSlotTables}

\* csp.solve() on the object
CspSolveCall ==
    /\ csp.pc = "created"
    /\ \E result \in CspSolve(csp.required_assignments, csp.groups, csp.subjects,
                               csp.rooms, csp.slots) :
           csp' = [csp EXCEPT !.pc = "returned", !.result = result]
    /\ UNCHANGED <<catalogVars, genVars, subVars, configVars, ga>>

------------------------------------------------------------------------------

NoResponse == [op |-> "none"]

\* nothing generated and nothing substituted yet
InitTables ==
    /\ timetable_versions = {}
    /\ timetable_entries = {}
    /\ last_id = [version |-> 0, entry |-> 0, substitution |-> 0]
    /\ runs = <<>>
    /\ response = "none"
    /\ substitutions = {}
    /\ sub_response = NoResponse
    /\ schedule_config = StoredConfig
    /\ config_call = NoCall

\* a database with a catalog, and no solver object beside it
Init ==
    /\ InitCatalog
    /\ ga = NoSolver
    /\ csp = NoSolver
    /\ InitTables

\* a solver object built from entities of its own, beside an empty database
InitGA ==
    /\ teachers = <<>> /\ subjects = <<>> /\ rooms = <<>>
    /\ class_groups = <<>> /\ time_slots = <<>> /\ lessons = <<>>
    /\ ga \in GaSolvers
    /\ csp = NoSolver
    /\ InitTables

\* a CSP solver object built from entities of its own, beside an empty database
InitCsp ==
    /\ teachers = <<>> /\ subjects = <<>> /\ rooms = <<>>
    /\ class_groups = <<>> /\ time_slots = <<>> /\ lessons = <<>>
    /\ ga = NoSolver
    /\ csp \in CspSolvers
    /\ InitTables

Next ==
    \/ \E method \in {"csp", "genetic"} : GenerateTimetable(method)
    \/ \E v \in 1..MaxVersions : WorkerSolve(v)
    \/ \E v \in 1..MaxVersions : WorkerCommit(v)
    \/ SaveSolve
    \/ \E v \in 1..MaxVersions : SaveEntries(v)
    \/ \E v \in 1..MaxVersions : SaveFault(v)

NextGA ==
    \/ GaPopulate
    \/ GaGeneration
    \/ GaChild
    \/ GaEndGeneration
    \/ GaReturn

\* the service and its generation endpoints
Spec == Init /\ [][Next]_vars

\* the two solvers: the service, which runs the CSP solver, and the solver
\* objects
SpecSolvers == (Init \/ InitGA \/ InitCsp) /\ [][Next \/ NextGA \/ CspSolveCall]_vars

\* The substitution endpoints act on the database that one generate_and_save
\* call has left: a day of two periods and either one room, one group and a
\* lesson of teacher 1 twice a week or of teachers 1 and 2 once a week, or
\* two rooms, two groups and a lesson of teachers 1 and 2 with each group.
SubTeacherTables ==
    { <<Teacher(1, 2)>>,
      <<Teacher(1, 2), Teacher(2, 2)>>,
      <<Teacher(1, 2), Teacher(2, 2), Teacher(3, 2)>>,
      <<Teacher(1, 2), Teacher(2, 2), Teacher(3, 0)>> }

SubLessonTables ==
    { <<Lesson(1, <<1>>, <<1>>, <<1>>, 2)>>,
      <<Lesson(1, <<1, 2>>, <<1>>, <<1>>, 1)>>,
      <<Lesson(1, <<1, 2>>, <<1>>, <<1, 2>>, 1)>> }

Dates == {"2025-01-06"}

\* of the schedules with two rooms, the ones that have teacher 1 with group 1
\* in room 1 and slot 1 (the others are these with rooms or slots exchanged)
FirstPlaced(schedule) ==
    \E i \in DOMAIN schedule :
        /\ schedule[i].teacher_id = 1 /\ schedule[i].class_group_id = 1
        /\ schedule[i].room_id = 1 /\ schedule[i].time_slot_id = 1

InitSub ==
    /\ teachers \in SubTeacherTables
    /\ subjects = <<Subject(1, Maths, FALSE, "LectureHall", 1, 1),
                    Subject(2, MlLab, TRUE, "Lab", 2, 2)>>
    /\ time_slots = ConfigureSlots(2, 60, 9)
    /\ lessons \in {ls \in SubLessonTables :
                       Range(ls[1].teachers) \subseteq Range(Ids(teachers))}
    /\ class_groups = IF Len(lessons[1].class_groups) = 1
                      THEN <<ClassGroup(1, 2)>>
                      ELSE <<ClassGroup(1, 2), ClassGroup(2, 1)>>
    /\ rooms = IF Len(lessons[1].class_groups) = 1
               THEN <<Room(1, "LectureHall", 2)>>
               ELSE <<Room(1, "LectureHall", 2), Room(2, "Lab", 1)>>
    /\ ga = NoSolver
    /\ csp = NoSolver
    /\ LET ra == ExpandLessonsSync(lessons) IN
       \E result \in {r \in CspSolve(ra, class_groups, subjects, rooms, time_slots) :
                          Truthy(r) /\ (Len(rooms) = 2 => FirstPlaced(r.schedule))} :
           /\ timetable_versions =
                  {[id |-> 1, algorithm |-> "csp", status |-> "active", is_valid |-> TRUE]}
           /\ timetable_entries =
                  {[id |-> i, version_id |-> 1,
                    time_slot_id |-> result.schedule[i].time_slot_id,
                    subject_id |-> result.schedule[i].subject_id,
                    room_id |-> result.schedule[i].room_id,
                    class_group_id |-> result.schedule[i].class_group_id,
                    teacher_id |-> result.schedule[i].teacher_id] :
                      i \in DOMAIN result.schedule}
           /\ last_id = [version |-> 1, entry |-> Len(result.schedule), substitution |-> 0]
           /\ runs = (1 :> Run("save", "done", "csp", result, ra))
    /\ response = "200"
    /\ substitutions = {}
    /\ sub_response = NoResponse
    /\ schedule_config = StoredConfig
    /\ config_call = NoCall

TeacherIdInputs == 1..(Len(teachers) + 1)
EntryIdInputs == 1..(Cardinality(timetable_entries) + 1)
SlotListInputs == {<<>>, <<1>>, <<2>>, <<1, 2>>}
SubjectListInputs == {<<>>, <<Maths>>, <<MlLab>>, <<<<"M", "L">>>>, <<Art, Maths>>}

EntryTeacher(timetable_entry_id) ==
    IF \E e \in timetable_entries : e.id = timetable_entry_id
    THEN (CHOOSE e \in timetable_entries : e.id = timetable_entry_id).teacher_id
    ELSE None

NextSub ==
    \/ \E teacher_id \in TeacherIdInputs, date \in Dates : AutoAssign(teacher_id, date)
    \/ \E e \in EntryIdInputs, date \in Dates, sb \in TeacherIdInputs :
          AssignSubstitute(e, date, sb, EntryTeacher(e))
    \/ \E e \in EntryIdInputs, date \in Dates : CancelClass(e, date, EntryTeacher(e))

SpecSub == InitSub /\ [][NextSub]_vars

\* Absences of one date.  The database is the one a generate_and_save call
\* has left for two groups with a lesson each, of teachers 1 and 2, in two
\* lecture halls; a third teacher, where there is one, teaches nothing.
AbsenceLessons ==
    <<Lesson(1, <<1>>, <<1>>, <<1>>, 1), Lesson(2, <<2>>, <<1>>, <<2>>, 1)>>

InitAbsences ==
    /\ teachers \in {t \in SubTeacherTables : Len(t) >= 2}
    /\ subjects = <<Subject(1, Maths, FALSE, "LectureHall", 1, 1)>>
    /\ time_slots = ConfigureSlots(2, 60, 9)
    /\ lessons = AbsenceLessons
    /\ class_groups = <<ClassGroup(1, 2), ClassGroup(2, 1)>>
    /\ rooms = <<Room(1, "LectureHall", 2), Room(2, "LectureHall", 2)>>
    /\ ga = NoSolver
    /\ csp = NoSolver
    /\ LET ra == ExpandLessonsSync(lessons) IN
       \E result \in {r \in CspSolve(ra, class_groups, subjects, rooms, time_slots) :
                          Truthy(r)} :
           /\ timetable_versions =
                  {[id |-> 1, algorithm |-> "csp", status |-> "active", is_valid |-> TRUE]}
           /\ timetable_entries =
                  {[id |-> i, version_id |-> 1,
                    time_slot_id |-> result.schedule[i].time_slot_id,
                    subject_id |-> result.schedule[i].subject_id,
                    room_id |-> result.schedule[i].room_id,
                    class_group_id |-> result.schedule[i].class_group_id,
                    teacher_id |-> result.schedule[i].teacher_id] :
                      i \in DOMAIN result.schedule}
           /\ last_id = [version |-> 1, entry |-> Len(result.schedule), substitution |-> 0]
           /\ runs = (1 :> Run("save", "done", "csp", result, ra))
    /\ response = "200"
    /\ substitutions = {}
    /\ sub_response = NoResponse
    /\ schedule_config = StoredConfig
    /\ config_call = NoCall

\* the bodies of the bulk requests: two absences of the date, one of which
\* may lack its teacher_id
BulkInputs ==
    {<<[teacher_id |-> a, date |-> d], [teacher_id |-> b, date |-> d]>> :
        a \in 0..2, b \in 1..2, d \in Dates}

\* requests are taken one after the other: a bulk request is processed to
\* its end before the next request
NextAbsences ==
    \/ /\ ~BulkRunning
       /\ \E teacher_id \in TeacherIdInputs, date \in Dates : AutoAssign(teacher_id, date)
    \/ /\ ~BulkRunning
       /\ \E absences \in BulkInputs : AutoAssignBulk(absences)
    \/ BulkStep

SpecAbsences == InitAbsences /\ [][NextAbsences]_vars

\* calls of the scorer on that database
NextScore ==
    \E c \in TeacherIdInputs, T \in SlotListInputs, S \in SubjectListInputs :
        ScoreSubstitute(c, T, S)

SpecScore == InitSub /\ [][NextScore]_vars

\* The configuration endpoints: a database with a small catalog, the stored
\* configuration and its slots, and either no timetable or an active Version.
ConfigInputs ==
    { ConfigRow(None, None, 2, 60, None, None, <<>>),
      ConfigRow(None, None, None, None, 720, 780, <<>>),
      ConfigRow(None, 180, None, 60, None, None, <<>>),
      ConfigRow(None, 120, None, 60, None, None, <<[position |-> 1, duration |-> 120]>>),
      ConfigRow(None, 120, 16, 60, None, None, <<>>),
      ConfigRow(720, None, 2, 60, 600, 660, <<>>),
      ConfigRow(None, None, 2, 60, 570, 630, <<>>) }

InitConfig ==
    /\ teachers = <<Teacher(1, 2)>>
    /\ subjects = <<Subject(1, Maths, FALSE, "LectureHall", 1, 1)>>
    /\ rooms = <<Room(1, "LectureHall", 2)>>
    /\ class_groups = <<ClassGroup(1, 2)>>
    /\ lessons = <<Lesson(1, <<1>>, <<1>>, <<1>>, 1)>>
    /\ schedule_config = StoredConfig
    /\ time_slots = generate_time_slots_from_config(StoredConfig)
    /\ config_call = NoCall
    /\ ga = NoSolver
    /\ csp = NoSolver
    /\ substitutions = {}
    /\ sub_response = NoResponse
    /\ response = "none"
    /\ \/ /\ timetable_versions = {}
          /\ timetable_entries = {}
          /\ last_id = [version |-> 0, entry |-> 0, substitution |-> 0]
          /\ runs = <<>>
       \/ LET ra == ExpandLessonsSync(lessons) IN
          \E result \in {r \in CspSolve(ra, class_groups, subjects, rooms, time_slots) :
                             Truthy(r)} :
              /\ timetable_versions =
                     {[id |-> 1, algorithm |-> "csp", status |-> "active", is_valid |-> TRUE]}
              /\ timetable_entries =
                     {[id |-> i, version_id |-> 1,
                       time_slot_id |-> result.schedule[i].time_slot_id,
                       subject_id |-> result.schedule[i].subject_id,
                       room_id |-> result.schedule[i].room_id,
                       class_group_id |-> result.schedule[i].class_group_id,
                       teacher_id |-> result.schedule[i].teacher_id] :
                         i \in DOMAIN result.schedule}
              /\ last_id = [version |-> 1, entry |-> Len(result.schedule), substitution |-> 0]
              /\ runs = (1 :> Run("save", "done", "csp", result, ra))

NextConfig ==
    \/ \E n \in {0, 1, MaxPeriods}, start_hour \in {9, 23} : ConfigureTimeSlots(n, 60, start_hour)
    \/ ConfigurePersist
    \/ \E config \in ConfigInputs : UpdateConfigSave(config)
    \/ UpdateConfigSlots
    \/ UpdateConfigDelete
    \/ \E config \in ConfigInputs : ApplyConfigSave(config)
    \/ ApplyConfigDelete
    \/ ApplyConfigSlots
    \/ ConfigGenerate
    \/ \E v \in DOMAIN runs : SaveEntries(v)
    \/ \E v \in DOMAIN runs : SaveFault(v)

SpecConfig == InitConfig /\ [][NextConfig]_vars

\* DELETE /timetables/{id}: Query.delete() issues one DELETE on
\* timetable_versions; the relationship's cascade acts on session.delete(obj)
\* only and the foreign key has no ON DELETE, so the entries are not touched.
\* Where the database enforces the foreign key, the DELETE of a Version that
\* has entries raises and nothing is deleted.
delete_timetable(id) ==
    /\ \/ /\ timetable_versions' = {version \in timetable_versions : version.id # id}
          /\ response' = "200"
       \/ /\ EntriesOf(id) # {}
          /\ response' = "500"
          /\ UNCHANGED timetable_versions
    /\ UNCHANGED <<catalogVars, solverVars, configVars, subVars, timetable_entries,
                   last_id, runs>>

\* generation in the background, deletion of a Version and updates of the
\* schedule configuration, in any interleaving
NextDelete ==
    \/ \E method \in {"csp", "genetic"} : GenerateTimetable(method)
    \/ \E v \in 1..MaxVersions : WorkerSolve(v)
    \/ \E v \in 1..MaxVersions : WorkerCommit(v)
    \/ \E id \in 1..MaxVersions : delete_timetable(id)
    \/ \E config \in {c \in ConfigInputs : c.number_of_periods = 2} :
            UpdateConfigSave(config)
    \/ UpdateConfigSlots
    \/ UpdateConfigDelete
    \/ ConfigGenerate
    \/ \E v \in DOMAIN runs : SaveEntries(v)
    \/ \E v \in DOMAIN runs : SaveFault(v)

SpecDelete == InitConfig /\ [][NextDelete]_vars

\* The background worker runs every task it was handed.  The behaviours
\* start from the catalogs with one room, one group and at most one slot.
InitLifecycle ==
    /\ Init
    /\ Len(rooms) = 1
    /\ Len(class_groups) = 1
    /\ Len(time_slots) <= 1

FairSpec ==
    /\ InitLifecycle
    /\ [][Next]_vars
    /\ \A v \in 1..MaxVersions : WF_vars(WorkerSolve(v)) /\ WF_vars(WorkerCommit(v))

\* TimetableService.get_analytics: None for an unknown version; otherwise the
\* number of entries of every teacher and of every room, and the conflicts
\* that the two overlap checks find in the entries of the version
get_analytics(version_id) ==
    IF ~\E v \in timetable_versions : v.id = version_id THEN None
    ELSE LET entries == [i \in {e.id : e \in EntriesOf(version_id)} |->
                            CHOOSE e \in EntriesOf(version_id) : e.id = i]
         IN  [teacher_utilization |->
                  [i \in DOMAIN teachers |->
                      [id |-> teachers[i].id,
                       assigned_slots |-> Cardinality({e \in DOMAIN entries :
                           entries[e].teacher_id = teachers[i].id})]],
              room_utilization |->
                  [i \in DOMAIN rooms |->
                      [id |-> rooms[i].id,
                       assigned_slots |-> Cardinality({e \in DOMAIN entries :
                           entries[e].room_id = rooms[i].id})]],
              conflicts |-> check_teacher_overlap(entries) + check_room_overlap(entries)]

------------------------------------------------------------------------------
\* Properties of generation

ActiveVersions == {v \in timetable_versions : v.status = "active"}

Fits(room, subject, group) ==
    room.type = subject.required_room_type /\ room.capacity >= group.student_count

\* entries of version v that carry the (group, subject, teacher) of assignment a
Realising(v, a) ==
    {e \in EntriesOf(v) : /\ e.class_group_id = a.group_id
                          /\ e.subject_id = a.subject_id
                          /\ e.teacher_id = a.teacher_id}

SameTriple(ra, a) ==
    {i \in DOMAIN ra : /\ ra[i].group_id = a.group_id
                       /\ ra[i].subject_id = a.subject_id
                       /\ ra[i].teacher_id = a.teacher_id}

IsLabBlock(subject) == subject.is_lab /\ subject.duration_slots > 1

\* C2: in every active Version no two entries share a teacher and a time
\* slot, a room and a time slot, or a group and a time slot (an entry without
\* a teacher shares no teacher).
C2_NoSharedSlot ==
    \A v \in ActiveVersions : \A e1, e2 \in EntriesOf(v.id) :
        (e1.id # e2.id /\ e1.time_slot_id = e2.time_slot_id) =>
            /\ e1.teacher_id = None \/ e1.teacher_id # e2.teacher_id
            /\ e1.room_id # e2.room_id
            /\ e1.class_group_id # e2.class_group_id

\* C3: in every active Version every entry's room has the type its subject
\* requires and seats its group, and the CSP solver has no decision variable
\* for an (assignment, room) pair that mismatches on type or capacity.
C3_RoomFits ==
    /\ \A v \in ActiveVersions : \A e \in EntriesOf(v.id) :
          Fits(ById(rooms, e.room_id), ById(subjects, e.subject_id),
               ById(class_groups, e.class_group_id))
    /\ \A v \in DOMAIN runs :
          (runs[v].method = "csp" /\ runs[v].pc # "queued") =>
              LET ra == runs[v].required_assignments IN
              \A k \in Range(CspVarSeq(ra, rooms, time_slots)) :
                  Fits(ById(rooms, k[2]), ById(subjects, ra[k[1]].subject_id),
                       ById(class_groups, ra[k[1]].group_id))

\* C4: in every active Version each required assignment of unit duration is
\* realised by exactly one entry of its group, subject and teacher, and every
\* entry realises a required assignment.
C4_RequirementCoverage ==
    \A v \in ActiveVersions :
        LET ra == runs[v.id].required_assignments IN
        /\ \A i \in DOMAIN ra :
              ~IsLabBlock(ById(subjects, ra[i].subject_id)) =>
                  Cardinality(Realising(v.id, ra[i])) = Cardinality(SameTriple(ra, ra[i]))
        /\ \A e \in EntriesOf(v.id) : \E i \in DOMAIN ra : e \in Realising(v.id, ra[i])

\* C5: in every active Version a required assignment whose subject is a lab
\* of duration d > 1 has exactly d entries, in d consecutive non-break
\* periods of one day, in one room.
C5_LabBlocks ==
    \A v \in ActiveVersions :
        LET ra == runs[v.id].required_assignments IN
        \A i \in DOMAIN ra :
            LET subject == ById(subjects, ra[i].subject_id)
                d == subject.duration_slots
                E == Realising(v.id, ra[i])
                slot(e) == ById(time_slots, e.time_slot_id)
            IN  IsLabBlock(subject) =>
                /\ Cardinality(E) = d * Cardinality(SameTriple(ra, ra[i]))
                /\ \A e \in E : \E B \in SUBSET E :
                      /\ e \in B /\ Cardinality(B) = d
                      /\ \A a, b \in B : /\ a.room_id = b.room_id
                                         /\ slot(a).day = slot(b).day
                                         /\ ~slot(a).is_break
                      /\ \E p \in {slot(a).period : a \in B} :
                            {slot(a).period : a \in B} = p..(p + d - 1)

Terminal == {"active", "failed", "error"}

BackgroundIds == {v \in DOMAIN runs : runs[v].by = "background"}

SaveIds == {v \in DOMAIN runs : runs[v].by = "save"}

\* the status of a generated Version is processing until its task has ended,
\* and then the one terminal status that the solver's answer selects
StatusMatchesResult ==
    \A v \in BackgroundIds :
        LET status == VersionRow(v).status
            result == runs[v].result
        IN  IF runs[v].pc # "done" THEN status = "processing"
            ELSE /\ status \in Terminal
                 /\ status = "active" <=> Truthy(result)
                 /\ status = "failed" <=> (result.kind # "raised" /\ ~Truthy(result))
                 /\ status = "error" <=> result.kind = "raised"

TerminalStays ==
    \A v \in timetable_versions :
        (v.id \in BackgroundIds /\ v.status \in Terminal) => v \in timetable_versions'

\* C7: a Version created by generate starts in processing and, the worker
\* running, reaches exactly one terminal status and keeps it: active iff the
\* solver returned a schedule, failed iff it returned none, error iff it
\* raised; no Version stays in processing forever.
C7_Lifecycle ==
    /\ []StatusMatchesResult
    /\ [][TerminalStays]_vars
    /\ \A id \in 1..MaxVersions :
          (id \in BackgroundIds) ~>
              (\E v \in timetable_versions : v.id = id /\ v.status \in Terminal)

C7_Witness ==
    \E a, b \in BackgroundIds :
        /\ runs[a].pc = "done" /\ VersionRow(a).status = "active"
        /\ runs[b].pc = "done" /\ VersionRow(b).status = "error"

\* C8: when the CSP solver finds no solution no entry is written: the 409 of
\* generate_and_save comes without a new Version, and the background task
\* leaves its Version failed with no entries.
C8_NoSolutionWritesNothing ==
    /\ [](\A v \in BackgroundIds :
            (runs[v].pc = "done" /\ runs[v].method = "csp" /\ runs[v].result.kind = "none")
                => VersionRow(v).status = "failed" /\ EntriesOf(v) = {})
    /\ [][(response # "409" /\ response' = "409") =>
            UNCHANGED <<timetable_versions, timetable_entries>>]_vars

C8_Witness ==
    /\ response = "409"
    /\ \E v \in BackgroundIds :
          /\ runs[v].pc = "done" /\ runs[v].method = "csp" /\ runs[v].result.kind = "none"
          /\ VersionRow(v).status = "failed"

\* C9: a Version of generate_and_save is in the database only as an active
\* Version with every entry of the solver's schedule; a fault while the
\* entries are written leaves neither the Version nor entries.
C9_OneTransaction ==
    \A v \in SaveIds :
        /\ VersionExists(v) =>
              /\ VersionRow(v).status = "active"
              /\ Cardinality(EntriesOf(v)) = Len(runs[v].result.schedule)
        /\ runs[v].pc = "faulted" => ~VersionExists(v) /\ EntriesOf(v) = {}

SlotOf(table, id) == ById(table, id)

\* C6: no entry of a schedule that a solver returns, and so no entry of a
\* Version, refers to a break slot; the period 6 entry of the cartesian path
\* and the genes of the genetic solver are among them.
C6_NoBreakSlot ==
    /\ \A e \in timetable_entries : ~SlotOf(time_slots, e.time_slot_id).is_break
    /\ \A v \in DOMAIN runs : \A i \in DOMAIN runs[v].result.schedule :
          ~SlotOf(time_slots, runs[v].result.schedule[i].time_slot_id).is_break
    /\ ga # NoSolver =>
          /\ \A id \in DOMAIN ga.genes :
                ~SlotOf(GaSlotTable, ga.genes[id].time_slot_id).is_break
          /\ \A i \in DOMAIN ga.result :
                ~SlotOf(GaSlotTable, ga.result[i].time_slot_id).is_break
    /\ csp # NoSolver =>
          \A i \in DOMAIN csp.result.schedule :
             ~SlotOf(csp.slots, csp.result.schedule[i].time_slot_id).is_break

------------------------------------------------------------------------------
\* Properties of substitution

RecordsOf(date, timetable_entry_id) ==
    {sb \in substitutions : sb.date = date /\ sb.timetable_entry_id = timetable_entry_id}

\* C1: when auto_assign_substitutes has returned for a teacher with entries
\* in the latest Version, every affected entry has exactly one Substitution
\* of the date, and these records have one substitute or are all cancelled.
C1_OneSubstitutionPerEntry ==
    (sub_response.op = "auto_assign" /\ sub_response.outcome \in {"assigned", "cancelled"}) =>
        LET records == UNION {RecordsOf(sub_response.date, e) : e \in sub_response.affected}
        IN  /\ \A e \in sub_response.affected :
                  Cardinality(RecordsOf(sub_response.date, e)) = 1
            /\ \/ \A a, b \in records : a.substitute_teacher_id = b.substitute_teacher_id
               \/ \A a \in records : a.status = "cancelled"

\* C10: score_substitute of a teacher who has an entry of the Version in one
\* of the slots gives available = false, score 0 and exactly the conflicting
\* slots; of any other teacher it gives available = true and the score
\* 100 + subject score + workload score, which is at least 100.
C10_ScoreSubstitute ==
    (sub_response.op = "score"
        /\ \E t \in Range(teachers) : t.id = sub_response.candidate_id) =>
        LET result == sub_response.result
            busy == {e \in EntriesOf(LatestVersionId) :
                        /\ e.teacher_id = sub_response.candidate_id
                        /\ e.time_slot_id \in Range(sub_response.required_time_slots)}
        IN  /\ ~result.raised
            /\ IF busy # {}
               THEN /\ ~result.available
                    /\ FracEq(result.score, Frac(0, 1))
                    /\ Range(result.conflicting_slots) = {e.time_slot_id : e \in busy}
               ELSE /\ result.available
                    /\ FracEq(result.score,
                              FracAdd(Frac(100, 1),
                                      FracAdd(result.breakdown.subject_expertise,
                                              result.breakdown.workload_balance)))
                    /\ FracGeq(result.score, Frac(100, 1))

\* C11: scoring never fails, the workload component of an available
\* candidate lies in [0, 50], and of two available candidates with the same
\* subject score and the same max_hours_per_week (whatever its value, 0
\* included) the one with the smaller load has a score at least as high.
C11_WorkloadMonotone ==
    (sub_response.op = "score"
        /\ \E t \in Range(teachers) : t.id = sub_response.candidate_id) =>
        LET r1 == sub_response.result
            T == sub_response.required_time_slots
            S == sub_response.required_subjects
        IN  /\ ~r1.raised
            /\ r1.available =>
                  /\ FracGeq(r1.breakdown.workload_balance, Frac(0, 1))
                  /\ FracGeq(Frac(WeightWorkloadBalance, 1), r1.breakdown.workload_balance)
            /\ \A t2 \in Range(teachers) :
                  LET r2 == score_substitute(LatestVersionId, t2.id, T, S) IN
                  /\ ~r2.raised
                  /\ (/\ r1.available /\ r2.available
                      /\ FracEq(r1.breakdown.subject_expertise, r2.breakdown.subject_expertise)
                      /\ r1.max_hours = r2.max_hours
                      /\ r1.current_workload < r2.current_workload)
                     => FracGeq(r1.score, r2.score)

\* the entries of a teacher in the latest Version, and what auto-assignment
\* asks of a substitute for them
AffectedEntries(teacher_id) ==
    OrderById({e \in EntriesOf(LatestVersionId) : e.teacher_id = teacher_id})

AffectedSlots(teacher_id) ==
    [i \in DOMAIN AffectedEntries(teacher_id) |-> AffectedEntries(teacher_id)[i].time_slot_id]

AffectedSubjects(teacher_id) ==
    LET named == SelectSeq(subjects, LAMBDA sb :
                     \E i \in DOMAIN AffectedEntries(teacher_id) :
                         AffectedEntries(teacher_id)[i].subject_id = sb.id)
    IN  [i \in DOMAIN named |-> named[i].name]

\* the other teachers without an entry of the latest Version in those slots
AvailableOthers(teacher_id) ==
    {t \in Range(teachers) :
        /\ t.id # teacher_id
        /\ check_availability(LatestVersionId, t.id, AffectedSlots(teacher_id)) = <<>>}

ScoreFor(teacher_id, candidate_id) ==
    score_substitute(LatestVersionId, candidate_id,
                     AffectedSlots(teacher_id), AffectedSubjects(teacher_id))

\* the last call was an auto-assignment for a teacher with entries, and it
\* has returned
AutoAssignReturned ==
    /\ sub_response.op = "auto_assign"
    /\ sub_response.outcome \in {"assigned", "cancelled"}

\* C12: when another teacher is available for all slots of the absent
\* teacher, auto_assign_substitutes gives every affected entry the available
\* candidate of the highest score, of the smallest id among those of equal
\* top score whatever the order of the rows of the teacher query, and never
\* the absent teacher.
C12_BestCandidateSmallestId ==
    (AutoAssignReturned /\ AvailableOthers(sub_response.teacher_id) # {}) =>
        LET absent == sub_response.teacher_id
            best == sub_response.substitute_id
        IN  /\ sub_response.outcome = "assigned"
            /\ best # absent
            /\ \E t \in AvailableOthers(absent) : t.id = best
            /\ \A t \in AvailableOthers(absent) :
                  /\ ~ScoreFor(absent, t.id).raised
                  /\ FracGeq(ScoreFor(absent, best).score, ScoreFor(absent, t.id).score)
                  /\ FracEq(ScoreFor(absent, best).score, ScoreFor(absent, t.id).score)
                        => best <= t.id
            /\ \A e \in sub_response.affected :
                  \E sb \in RecordsOf(sub_response.date, e) :
                      sb.status = "confirmed" /\ sb.substitute_teacher_id = best

\* the records that a step adds to the substitutions table
NewRecords == substitutions' \ substitutions

\* C13: when no other teacher is available for all slots of the absent
\* teacher (each has an entry in one of them, or there is none), the call of
\* auto_assign_substitutes adds for every affected entry one Substitution
\* without substitute and with status cancelled, adds no confirmed record,
\* and returns success = false with the reason that all substitutes are busy.
C13_CancelledWhenNoneAvailable ==
    [][(/\ sub_response'.op = "auto_assign"
        /\ sub_response'.affected # {}
        /\ sub_response'.outcome # "fault"
        /\ AvailableOthers(sub_response'.teacher_id) = {}) =>
          /\ sub_response'.outcome = "cancelled"
          /\ ~sub_response'.success
          /\ sub_response'.reason =
                "All potential substitutes are busy during these time slots"
          /\ \A sb \in NewRecords :
                /\ sb.status = "cancelled" /\ sb.substitute_teacher_id = None
                /\ sb.date = sub_response'.date
                /\ sb.original_teacher_id = sub_response'.teacher_id
          /\ \A e \in sub_response'.affected :
                Cardinality({sb \in NewRecords : sb.timetable_entry_id = e}) = 1
          /\ {sb.timetable_entry_id : sb \in NewRecords} = sub_response'.affected
      ]_vars

\* all classes of teacher 1 were cancelled while teacher 2, who exists, is
\* busy in one of their slots
C13_Witness ==
    /\ sub_response.op = "auto_assign" /\ sub_response.outcome = "cancelled"
    /\ \E t \in Range(teachers) :
          /\ t.id # sub_response.teacher_id
          /\ check_availability(LatestVersionId, t.id,
                                AffectedSlots(sub_response.teacher_id)) # <<>>
    /\ \A e \in sub_response.affected :
          \E sb \in RecordsOf(sub_response.date, e) : sb.status = "cancelled"

\* the outcomes with which the call returns before it looks for a substitute
EarlyOutcomes == {"no timetable", "teacher not found", "no classes"}

\* C14: one call of auto_assign_substitutes creates its records atomically:
\* a committed state has the record of that call for every affected entry or
\* for none, and a call that returns early (no version, unknown teacher, no
\* affected entry) leaves the substitutions table unchanged.
C14_AtomicCreation ==
    [][sub_response'.op = "auto_assign" =>
          /\ \/ NewRecords = {}
             \/ /\ {sb.timetable_entry_id : sb \in NewRecords} = sub_response'.affected
                /\ \A e \in sub_response'.affected :
                      Cardinality({sb \in NewRecords : sb.timetable_entry_id = e}) = 1
          /\ substitutions \subseteq substitutions'
          /\ sub_response'.outcome \in EarlyOutcomes \cup {"raised", "fault"} =>
                substitutions' = substitutions
          /\ sub_response'.outcome \in {"assigned", "cancelled"} => NewRecords # {}
      ]_vars

\* a call for a teacher with two classes has answered and both classes have
\* a record of that date
C14_Witness ==
    /\ sub_response.op = "auto_assign"
    /\ sub_response.outcome = "assigned"
    /\ Cardinality(sub_response.affected) = 2
    /\ \A e \in sub_response.affected : RecordsOf(sub_response.date, e) # {}

\* C15: for every active Version get_analytics returns no conflict, also
\* when the Version comes from the genetic solver or from the cartesian
\* fallback of the CSP solver, whose entries may have no teacher.
C15_ActiveHasNoConflict ==
    \A v \in ActiveVersions : get_analytics(v.id).conflicts = 0

\* the positions of a sequence of required assignments that carry a triple
Occurrences(ra, teacher_id, subject_id, group_id) ==
    {i \in DOMAIN ra : /\ ra[i].teacher_id = teacher_id
                       /\ ra[i].subject_id = subject_id
                       /\ ra[i].group_id = group_id}

\* the occurrences per week that the lessons ask of a triple
Demanded(teacher_id, subject_id, group_id) ==
    SumOver({l \in DOMAIN lessons : /\ teacher_id \in Range(lessons[l].teachers)
                                    /\ subject_id \in Range(lessons[l].subjects)
                                    /\ group_id \in Range(lessons[l].class_groups)},
            [l \in DOMAIN lessons |-> lessons[l].lessons_per_week])

\* the generations that have expanded the lessons
Expanded == {v \in DOMAIN runs : runs[v].pc # "queued"}

\* C16: the required assignments of every generation, made by
\* generate_and_save or by generate_in_background, hold for every lesson and
\* every (teacher, subject, group) of its three member lists exactly
\* lessons_per_week items, numbered by assignment_id from 0 upwards, and the
\* two services make the same sequence from the same lessons.
C16_CartesianExpansion ==
    \A v \in Expanded :
        LET ra == runs[v].required_assignments IN
        /\ \A i \in DOMAIN ra : ra[i].assignment_id = i - 1
        /\ \A l \in DOMAIN lessons :
              \A t \in Range(lessons[l].teachers), sj \in Range(lessons[l].subjects),
                 g \in Range(lessons[l].class_groups) :
                  Cardinality(Occurrences(ra, t, sj, g)) = Demanded(t, sj, g)
        /\ \A w \in Expanded :
              runs[w].required_assignments = runs[v].required_assignments

\* C17: when no lessons exist generation fails for want of requirements: no
\* solver returns a schedule (none is run on a problem put in their place),
\* no entry is written and no Version becomes active.
C17_EmptyRequirementFails ==
    lessons = <<>> =>
        /\ \A v \in DOMAIN runs : runs[v].result.kind # "schedule"
        /\ timetable_entries = {}
        /\ ActiveVersions = {}

------------------------------------------------------------------------------
\* Properties of the configuration endpoints

SlotIds(slots) == {slots[i].id : i \in DOMAIN slots}

\* C18: a change of the ScheduleConfig takes effect together with the full
\* regeneration of the time slots, the deletion of all Versions there were
\* and the fresh solve, as one transaction: no commit stores a new
\* configuration beside the old slots, new slots beside a Version of before
\* whose entries refer to deleted slots, or deletes the Versions without a
\* change of the configuration.
C18_ConfigChangeIsOneTransaction ==
    [][/\ schedule_config' # schedule_config =>
             /\ ~SlotPlan(schedule_config').rejected
             /\ time_slots' = generate_time_slots_from_config(schedule_config')
             /\ timetable_versions \cap timetable_versions' = {}
       /\ time_slots' # time_slots =>
             /\ schedule_config' # schedule_config
             /\ timetable_versions \cap timetable_versions' = {}
             /\ \A e \in timetable_entries' : e.time_slot_id \in SlotIds(time_slots')
       /\ timetable_versions \ timetable_versions' # {} =>
             schedule_config' # schedule_config
      ]_vars

\* the day of the request ends after midnight
PastMidnight(call) ==
    IF call.op = "configure_time_slots"
    THEN call.input.start_hour * 60
            + call.input.number_of_periods * call.input.period_length_minutes
         > MinutesPerDay
    ELSE /\ call.input.number_of_periods # None
         /\ call.input.period_duration_minutes # None
         /\ hhmm_to_minutes(call.input.day_start_time)
               + call.input.number_of_periods * call.input.period_duration_minutes
               + total_break_minutes(call.input.breaks) + lunch_minutes(call.input)
            > MinutesPerDay

\* the working minutes of the request leave no time after breaks and lunch
NoTimeLeft(call) ==
    /\ call.op # "configure_time_slots"
    /\ working_minutes(call.input) # None
    /\ working_minutes(call.input) - total_break_minutes(call.input.breaks)
          - lunch_minutes(call.input) <= 0

\* C19: a configuration that extends past midnight, or whose working minutes
\* leave no time after breaks and lunch, is rejected with a validation error
\* and the stored ScheduleConfig and the time slots stay exactly as they
\* were before the request.
C19_RejectedLeavesStored ==
    (config_call.pc = "done" /\ (PastMidnight(config_call) \/ NoTimeLeft(config_call))) =>
        /\ config_call.http = "400"
        /\ schedule_config = config_call.old_config
        /\ time_slots = config_call.old_slots

------------------------------------------------------------------------------
\* Properties of the manual assignment

\* C20: assign_substitute is an upsert on (date, entry): after it answers
\* there is exactly one record of that date and entry, and it has the
\* substitute of the request and status confirmed, whether or not a record
\* was there before; the same request made again leaves the table as it is;
\* for an unknown entry or an unknown substitute it answers not found and
\* changes nothing.
C20_AssignIsUpsert ==
    [][sub_response'.op = "assign" =>
          LET key == {sb \in substitutions' :
                         /\ sb.date = sub_response'.date
                         /\ sb.timetable_entry_id = sub_response'.timetable_entry_id} IN
          /\ sub_response'.outcome = "confirmed" =>
                /\ Cardinality(key) = 1
                /\ \A sb \in key :
                      /\ sb.substitute_teacher_id = sub_response'.substitute_teacher_id
                      /\ sb.status = "confirmed"
          /\ sub_response' = sub_response => substitutions' = substitutions
          /\ sub_response'.outcome # "confirmed" =>
                /\ sub_response'.outcome \in {"404 entry", "404 teacher"}
                /\ substitutions' = substitutions
          /\ sub_response'.outcome = "confirmed" <=>
                /\ \E e \in timetable_entries : e.id = sub_response'.timetable_entry_id
                /\ \E t \in Range(teachers) : t.id = sub_response'.substitute_teacher_id
      ]_vars

------------------------------------------------------------------------------
\* Properties of the genetic back-end

\* C21: the two solvers are interchangeable behind the service: a genetic
\* generation on a catalog with lessons gets the input of a CSP generation,
\* the solver runs to its end and returns a schedule, and the generation
\* ends with its Version active, not in status error.
C21_GeneticBehindService ==
    \A v \in DOMAIN runs :
        (/\ runs[v].method = "genetic" /\ runs[v].pc = "done"
         /\ VersionExists(v) /\ lessons # <<>>) =>
            /\ runs[v].result.kind = "schedule"
            /\ VersionRow(v).status = "active"


\* C22: elitism.  While the children of a generation are produced, the two
\* individuals kept from the sorted population stay as they were, dict by
\* dict, and so the greatest fitness of the new population is never below the
\* fitness of the best individual kept.
C22_ElitesCarriedUnchanged ==
    [][(ga.pc = "breeding" /\ ga'.pc = "breeding") =>
          /\ \A e \in 1..2 :
                Deref(ga', ga'.new_population[e]) = Deref(ga, ga.new_population[e])
          /\ \E i \in DOMAIN ga'.new_population :
                ~FitnessGreater(ga, Deref(ga, ga.new_population[1]),
                                Deref(ga', ga'.new_population[i]))]_vars


\* C23: solve runs the loop body no more than `generations` times, and the
\* individual it returns has the greatest fitness of the population as it
\* stands when the loop is left.
C23_ReturnsBestOfFinalPopulation ==
    ga # NoSolver =>
        /\ ga.gen <= ga.generations
        /\ ga.pc = "returned" =>
              \A i \in DOMAIN ga.population :
                  ~FitnessGreater(ga, Deref(ga, ga.population[i]), ga.result)


\* the individuals a solver object holds
GaIndividuals ==
    IF ga = NoSolver THEN {}
    ELSE Range(ga.population) \cup Range(ga.new_population)

\* a schedule without hard violations: no teacher, room or group is in a slot
\* twice, and every room has the type its subject requires and holds its group
Feasible(g, schedule) ==
    /\ check_teacher_overlap(schedule) = 0
    /\ check_room_overlap(schedule) = 0
    /\ check_room_capacity(schedule, g.groups, g.rooms) = 0
    /\ \A i, j \in DOMAIN schedule :
          (i # j /\ schedule[i].time_slot_id = schedule[j].time_slot_id) =>
              schedule[i].class_group_id # schedule[j].class_group_id
    /\ \A i \in DOMAIN schedule :
          ById(g.rooms, schedule[i].room_id).type =
              ById(g.subjects, schedule[i].subject_id).required_room_type

\* C24: an individual whose fitness is at least 10000, the value at which
\* solve leaves the loop, has no hard violation.
C24_BaseFitnessIsFeasible ==
    \A individual \in GaIndividuals :
        FitnessAtLeastBase(ga, Deref(ga, individual)) =>
            Feasible(ga, Deref(ga, individual))


\* the free periods between the first and the last occupied period of each
\* (teacher, day): (p_k - p_1 + 1) - k for the occupied periods p_1 < ... < p_k
Gaps(schedule, slots) ==
    LET tids == {schedule[i].teacher_id : i \in DOMAIN schedule} \ {None}
        days == {t.day : t \in Range(slots)}
        free(td) ==
            LET on == TeacherDayEntries(schedule, slots, td[1], td[2])
                occupied == {PeriodOf(schedule, slots, i) : i \in on}
            IN  IF occupied = {} THEN 0
                ELSE (Max(occupied) - Min(occupied) + 1) - Cardinality(occupied)
    IN  SumOver(tids \X days, [td \in tids \X days |-> free(td)])

\* C25: for every individual a solver evaluates, calculate_gaps is 10 times
\* the number of gaps and not negative, and the soft score as a whole
\* (gaps + balance + consecutive) is not negative.
C25_SoftScoreNonNegative ==
    \A individual \in GaIndividuals :
        LET schedule == Deref(ga, individual)
            b == balance_workload_squared(schedule, ga.teachers)
            k == calculate_gaps(schedule, ga.slots)
                    + consecutive_classes_penalty(schedule, ga.slots)
        IN  /\ calculate_gaps(schedule, ga.slots) = 10 * Gaps(schedule, ga.slots)
            /\ calculate_gaps(schedule, ga.slots) >= 0
            /\ k >= 0 \/ b.num >= k * k * b.den


------------------------------------------------------------------------------
\* Properties of the automatic assignment over several absences

\* the time slot of the entry a Substitution is for
SlotOfEntry(timetable_entry_id) ==
    (CHOOSE e \in timetable_entries : e.id = timetable_entry_id).time_slot_id

\* C26: after any sequence of auto_assign_substitutes calls for a date, no
\* teacher is the confirmed substitute of two entries of the same time slot
\* on that date.
C26_OneClassPerSlotForSubstitute ==
    \A s1, s2 \in substitutions :
        (/\ s1.id # s2.id /\ s1.date = s2.date
         /\ s1.status = "confirmed" /\ s2.status = "confirmed"
         /\ s1.substitute_teacher_id = s2.substitute_teacher_id
         /\ s1.timetable_entry_id # s2.timetable_entry_id) =>
            SlotOfEntry(s1.timetable_entry_id) # SlotOfEntry(s2.timetable_entry_id)

\* C27: a teacher recorded absent on a date is not the confirmed substitute
\* of another Substitution of that date.
C27_AbsentTeacherNotSubstitute ==
    \A s1, s2 \in substitutions :
        (s1.date = s2.date /\ s2.status = "confirmed") =>
            s2.substitute_teacher_id # s1.original_teacher_id


------------------------------------------------------------------------------
\* Properties of the Version rows

\* C28: a Version has is_valid = true only when its status is active.
C28_ValidOnlyWhenActive ==
    \A version \in timetable_versions :
        version.is_valid => version.status = "active"


\* C29: every persisted TimetableEntry references a Version that exists,
\* under every interleaving of generation, deletion and configuration
\* updates.
C29_EntriesReferenceVersion ==
    \A entry \in timetable_entries : VersionExists(entry.version_id)


------------------------------------------------------------------------------
\* Properties of the generated time slots

\* the slots of every day, in the order of their creation: the first period
\* starts at day_start_time, every later slot starts no earlier than the slot
\* before it ends, the periods are numbered 1..num_periods in that order, and
\* no slot runs past midnight
DaysInOrder(slots, cfg) ==
    \A d \in DOMAIN cfg.schedule_days :
        LET of_day == SelectSeq(slots, LAMBDA s : s.day = cfg.schedule_days[d])
            periods == SelectSeq(of_day, LAMBDA s : ~s.is_break)
        IN  /\ Len(periods) = SlotPlan(cfg).num_periods
            /\ periods # <<>> => periods[1].start_time = cfg.day_start_time
            /\ \A i \in DOMAIN periods : periods[i].period = i
            /\ \A i \in 2..Len(of_day) :
                  hhmm_to_minutes(of_day[i].start_time)
                      >= hhmm_to_minutes(of_day[i - 1].end_time)
            /\ \A i \in DOMAIN of_day :
                  \/ of_day[i].end_time = <<0, 0>>
                  \/ hhmm_to_minutes(of_day[i].end_time)
                         >= hhmm_to_minutes(of_day[i].start_time)

\* C30: the time slots that generate_time_slots_from_config has created for
\* an accepted configuration do not overlap within a day.
C30_GeneratedSlotsDoNotOverlap ==
    (/\ ~SlotPlan(schedule_config).rejected
     /\ time_slots = generate_time_slots_from_config(schedule_config)) =>
        DaysInOrder(time_slots, schedule_config)

====
